---------------------------- MODULE Spec2Model ----------------------------
(***************************************************************************)
(* Planner/executor agent of src/main.py: the response parser (list mode   *)
(* and call mode), the dispatcher and the run_agent loop.                  *)
(*                                                                         *)
(* Text is a sequence of one-character strings.  Python values are tagged  *)
(* records: [t |-> "None"], [t |-> "str", v |-> text], [t |-> "int", ...]. *)
(***************************************************************************)
EXTENDS Integers, Sequences, FiniteSets, TLC

VARIABLES
    pc,                 \* position of run_agent
    function_registry,  \* name -> tool descriptor (module global, main.py:30)
    llm1_response,      \* planner completion text
    subtasks,           \* result of process_llm1_response
    i,                  \* loop index of "for i, subtask in enumerate(subtasks)"
    func_name,          \* parsed function name of the current subtask
    args,               \* parsed argument map of the current subtask
    pending,            \* outcome of the try block of the current iteration
    results,            \* the trace: [subtasks, success, error]
    calls,              \* history of tool invocations (func(**valid_args))
    parsed,             \* history of ParsedCalls, one per subtask reached
    escaped,            \* exception that left run_agent, or None
    p_in,               \* parser specifications: the input
    p_out,              \* parser specifications: the output
    p_pc                \* parser specifications: position

vars == <<pc, function_registry, llm1_response, subtasks, i, func_name, args,
          pending, results, calls, parsed, escaped, p_in, p_out, p_pc>>

agent_vars == <<pc, function_registry, llm1_response, subtasks, i, func_name,
                args, pending, results, calls, parsed, escaped>>

parser_vars == <<p_in, p_out, p_pc>>

---------------------------------------------------------------------------
(* Python values *)

NoneV == [t |-> "None"]

PyStr(s) == [t |-> "str", v |-> s]

PyInt(n) == [t |-> "int", v |-> n]

PyBool(b) == [t |-> "bool", v |-> b]

\* a float given by its decimal digits: m * 10^(-e), without trailing zeros
PyFloat(m, e) == [t |-> "float", m |-> m, e |-> e]

\* Python truthiness of None and str ("if not func_name", 'if not results["error"]')
Truthy(x) == /\ x.t # "None"
             /\ (x.t = "str" => Len(x.v) > 0)

---------------------------------------------------------------------------
(* Character classes and str methods *)

Digits == {"0", "1", "2", "3", "4", "5", "6", "7", "8", "9"}

LowerLetters == {"a", "b", "c", "d", "e", "f", "g", "h", "i", "j", "k", "l", "m",
                 "n", "o", "p", "q", "r", "s", "t", "u", "v", "w", "x", "y", "z"}

UpperLetters == {"A", "B", "C", "D", "E", "F", "G", "H", "I", "J", "K", "L", "M",
                 "N", "O", "P", "Q", "R", "S", "T", "U", "V", "W", "X", "Y", "Z"}

\* \w of the re module
IsWord(c) == c \in Digits \cup LowerLetters \cup UpperLetters \cup {"_"}

\* \s of the re module, and the characters str.strip() removes
IsSpace(c) == c \in {" ", "\n", "\t", "\r"}

\* str.lower() on one character
LowerChar(c) ==
    CASE c = "A" -> "a" [] c = "B" -> "b" [] c = "C" -> "c" [] c = "D" -> "d"
      [] c = "E" -> "e" [] c = "F" -> "f" [] c = "G" -> "g" [] c = "H" -> "h"
      [] c = "I" -> "i" [] c = "J" -> "j" [] c = "K" -> "k" [] c = "L" -> "l"
      [] c = "M" -> "m" [] c = "N" -> "n" [] c = "O" -> "o" [] c = "P" -> "p"
      [] c = "Q" -> "q" [] c = "R" -> "r" [] c = "S" -> "s" [] c = "T" -> "t"
      [] c = "U" -> "u" [] c = "V" -> "v" [] c = "W" -> "w" [] c = "X" -> "x"
      [] c = "Y" -> "y" [] c = "Z" -> "z" [] OTHER -> c

lower(s) == [k \in 1..Len(s) |-> LowerChar(s[k])]

\* s[a:b] of Python with 0 <= a, b given as 1-based inclusive bounds
Slice(s, a, b) == IF a > b THEN <<>> ELSE SubSeq(s, a, b)

\* number of leading characters of s that satisfy IsSpace
LeadSpace(s) ==
    LET other == {k \in 1..Len(s) : ~IsSpace(s[k])}
    IN  IF other = {} THEN Len(s) ELSE (CHOOSE k \in other : \A m \in other : k <= m) - 1

TrailSpace(s) ==
    LET other == {k \in 1..Len(s) : ~IsSpace(s[k])}
    IN  IF other = {} THEN Len(s)
        ELSE Len(s) - (CHOOSE k \in other : \A m \in other : k >= m)

lstrip(s) == Slice(s, LeadSpace(s) + 1, Len(s))

rstrip(s) == Slice(s, 1, Len(s) - TrailSpace(s))

strip(s) == rstrip(lstrip(s))

\* smallest index k >= from with s[k] = c, or 0
IndexFrom(s, c, from) ==
    LET at == {k \in from..Len(s) : s[k] = c}
    IN  IF at = {} THEN 0 ELSE CHOOSE k \in at : \A m \in at : k <= m

\* largest index k >= from with s[k] = c, or 0
LastIndexFrom(s, c, from) ==
    LET at == {k \in from..Len(s) : s[k] = c}
    IN  IF at = {} THEN 0 ELSE CHOOSE k \in at : \A m \in at : k >= m

startswith(s, p) == Len(s) >= Len(p) /\ SubSeq(s, 1, Len(p)) = p

endswith(s, p) == Len(s) >= Len(p) /\ SubSeq(s, Len(s) - Len(p) + 1, Len(s)) = p

\* the character SUPERSCRIPT TWO (U+00B2), written with a character that no
\* text of the model uses otherwise: str.isdigit() is True on it, and int()
\* and float() raise ValueError on it
Sup2 == "^"

\* str.isdigit() on the characters of the model
isdigit(s) == Len(s) > 0 /\ \A k \in 1..Len(s) : s[k] \in Digits \cup {Sup2}

\* int(s) or float(s) returns for a text that passed the test of line 279:
\* every digit of it is a decimal digit
converts(s) == \A k \in 1..Len(s) : s[k] # Sup2

\* s.replace(c, '', 1)
replace_first(s, c) ==
    LET k == IndexFrom(s, c, 1)
    IN  IF k = 0 THEN s ELSE Slice(s, 1, k - 1) \o Slice(s, k + 1, Len(s))

\* s.split(c): the pieces between the occurrences of c
RECURSIVE split(_, _)
split(s, c) ==
    LET k == IndexFrom(s, c, 1)
    IN  IF k = 0 THEN <<s>>
        ELSE <<Slice(s, 1, k - 1)>> \o split(Slice(s, k + 1, Len(s)), c)

DigitVal(c) ==
    CASE c = "0" -> 0 [] c = "1" -> 1 [] c = "2" -> 2 [] c = "3" -> 3 [] c = "4" -> 4
      [] c = "5" -> 5 [] c = "6" -> 6 [] c = "7" -> 7 [] c = "8" -> 8 [] c = "9" -> 9

\* int(s) for a text of digits
RECURSIVE int(_)
int(s) == IF s = <<>> THEN 0 ELSE 10 * int(SubSeq(s, 1, Len(s) - 1)) + DigitVal(s[Len(s)])

RECURSIVE Normalise(_, _)
Normalise(m, e) == IF e > 0 /\ m % 10 = 0 THEN Normalise(m \div 10, e - 1) ELSE PyFloat(m, e)

\* float(s) for a text of digits with one decimal point
float(s) ==
    LET k == IndexFrom(s, ".", 1)
    IN  Normalise(int(replace_first(s, ".")), Len(s) - k)

---------------------------------------------------------------------------
(* dict: a function from keys to values *)

EmptyDict == [k \in {} |-> NoneV]

\* d[key] = value
DictSet(d, key, value) ==
    [k \in DOMAIN d \cup {key} |-> IF k = key THEN value ELSE d[k]]

---------------------------------------------------------------------------
(* Call mode: parse_function_call, src/main.py:206-293 *)

\* number of leading characters of s that satisfy IsWord
WordPrefix(s) ==
    LET other == {k \in 1..Len(s) : ~IsWord(s[k])}
    IN  IF other = {} THEN Len(s) ELSE (CHOOSE k \in other : \A m \in other : k <= m) - 1

\* match_func_name for the pattern (\w+)\( : no white space before "("
match_func_name_immediate(s) ==
    LET k == WordPrefix(s)
    IN  IF k >= 1 /\ Len(s) > k /\ s[k + 1] = "("
        THEN PyStr(SubSeq(s, 1, k))
        ELSE NoneV

\* re.match(r'(\w+)\s*\(', s): group(1) as a str, or None
match_func_name(s) ==
    LET k    == WordPrefix(s)
        rest == Slice(s, k + 1, Len(s))
        j    == LeadSpace(rest)
    IN  IF k >= 1 /\ Len(rest) > j /\ rest[j + 1] = "("
        THEN PyStr(SubSeq(s, 1, k))
        ELSE NoneV

\* search_args in which a text without ")" has its span run to the end
search_args_to_end(s) ==
    LET p == IndexFrom(s, "(", 1)
        q == IF p = 0 THEN 0 ELSE LastIndexFrom(s, ")", p + 1)
    IN  IF p = 0 THEN NoneV
        ELSE IF q = 0 THEN PyStr(Slice(s, p + 1, Len(s)))
        ELSE PyStr(Slice(s, p + 1, q - 1))

\* re.search(r'\((.*)\)', s, re.DOTALL): group(1) as a str, or None.
\* Leftmost '(' that has a ')' after it, then greedy to the last ')'.
search_args(s) ==
    LET p == IndexFrom(s, "(", 1)
        q == IF p = 0 THEN 0 ELSE LastIndexFrom(s, ")", p + 1)
    IN  IF p = 0 \/ q = 0 THEN NoneV ELSE PyStr(Slice(s, p + 1, q - 1))

\* split_step in which either quote character ends a quoted value
split_step_any_quote(st, char) ==
    IF char \in {"\"", "'"}
    THEN IF ~st.in_string
         THEN [st EXCEPT !.in_string = TRUE, !.quote_char = char,
                         !.current_arg = Append(@, char)]
         ELSE [st EXCEPT !.in_string = FALSE, !.quote_char = "",
                         !.current_arg = Append(@, char)]
    ELSE IF char = "," /\ ~st.in_string
    THEN [st EXCEPT !.args_list = Append(@, strip(st.current_arg)),
                    !.current_arg = <<>>]
    ELSE [st EXCEPT !.current_arg = Append(@, char)]

\* one pass of the loop "for char in args_str", lines 243-255, on its state
split_step(st, char) ==
    IF char \in {"\"", "'"}
    THEN IF ~st.in_string
         THEN [st EXCEPT !.in_string = TRUE, !.quote_char = char,
                         !.current_arg = Append(@, char)]
         ELSE IF char = st.quote_char
         THEN [st EXCEPT !.in_string = FALSE, !.quote_char = "",
                         !.current_arg = Append(@, char)]
         ELSE [st EXCEPT !.current_arg = Append(@, char)]
    ELSE IF char = "," /\ ~st.in_string
    THEN [st EXCEPT !.args_list = Append(@, strip(st.current_arg)),
                    !.current_arg = <<>>]
    ELSE [st EXCEPT !.current_arg = Append(@, char)]

\* the loop from the k-th character on
RECURSIVE split_loop(_, _, _)
split_loop(s, k, st) ==
    IF k > Len(s) \/ st.in_string \notin BOOLEAN THEN st
    ELSE split_loop(s, k + 1, split_step(st, s[k]))

\* lines 237-258: the loop, then "if current_arg"
split_args(args_str) ==
    LET st == split_loop(args_str, 1,
                         [in_string |-> FALSE, quote_char |-> "",
                          current_arg |-> <<>>, args_list |-> <<>>])
    IN  IF st.current_arg # <<>> THEN Append(st.args_list, strip(st.current_arg))
        ELSE st.args_list

\* coerce_value with the quotes removed before the chain instead of by it
coerce_value_quotes_first(value) ==
    LET bare == IF \/ (startswith(value, <<"\"">>) /\ endswith(value, <<"\"">>))
                   \/ (startswith(value, <<"'">>) /\ endswith(value, <<"'">>))
                THEN Slice(value, 2, Len(value) - 1)
                ELSE value
    IN  IF lower(bare) = <<"t", "r", "u", "e">> THEN PyBool(TRUE)
        ELSE IF lower(bare) = <<"f", "a", "l", "s", "e">> THEN PyBool(FALSE)
        ELSE IF lower(bare) = <<"n", "o", "n", "e">> THEN NoneV
        ELSE IF isdigit(replace_first(bare, "."))
        THEN IF ~converts(bare) THEN PyStr(bare)
             ELSE IF IndexFrom(bare, ".", 1) # 0 THEN float(bare) ELSE PyInt(int(bare))
        ELSE PyStr(bare)

\* coerce_value whose except clause sets the value to None
coerce_value_none_on_error(value) ==
    IF \/ (startswith(value, <<"\"">>) /\ endswith(value, <<"\"">>))
       \/ (startswith(value, <<"'">>) /\ endswith(value, <<"'">>))
    THEN PyStr(Slice(value, 2, Len(value) - 1))
    ELSE IF lower(value) = <<"t", "r", "u", "e">> THEN PyBool(TRUE)
    ELSE IF lower(value) = <<"f", "a", "l", "s", "e">> THEN PyBool(FALSE)
    ELSE IF lower(value) = <<"n", "o", "n", "e">> THEN NoneV
    ELSE IF isdigit(replace_first(value, "."))
    THEN IF ~converts(value) THEN NoneV
         ELSE IF IndexFrom(value, ".", 1) # 0 THEN float(value) ELSE PyInt(int(value))
    ELSE PyStr(value)

\* the if/elif chain on a stripped value, lines 270-283, with the except
\* clause of lines 284-285 that leaves the value as it was
coerce_value(value) ==
    IF \/ (startswith(value, <<"\"">>) /\ endswith(value, <<"\"">>))
       \/ (startswith(value, <<"'">>) /\ endswith(value, <<"'">>))
    THEN PyStr(Slice(value, 2, Len(value) - 1))
    ELSE IF lower(value) = <<"t", "r", "u", "e">> THEN PyBool(TRUE)
    ELSE IF lower(value) = <<"f", "a", "l", "s", "e">> THEN PyBool(FALSE)
    ELSE IF lower(value) = <<"n", "o", "n", "e">> THEN NoneV
    ELSE IF isdigit(replace_first(value, "."))
    THEN IF ~converts(value) THEN PyStr(value)
         ELSE IF IndexFrom(value, ".", 1) # 0 THEN float(value) ELSE PyInt(int(value))
    ELSE PyStr(value)

\* process_args in which an argument without "=" is entered under its own
\* text, with the value None
RECURSIVE process_args_positional(_, _)
process_args_positional(args_list, args_dict) ==
    IF args_list = <<>> THEN args_dict
    ELSE LET arg == Head(args_list)
             eq  == IndexFrom(arg, "=", 1)
         IN  IF eq # 0
             THEN LET key   == strip(Slice(arg, 1, eq - 1))
                      value == strip(Slice(arg, eq + 1, Len(arg)))
                  IN  process_args_positional(Tail(args_list),
                                   DictSet(args_dict, key, coerce_value(value)))
             ELSE process_args_positional(Tail(args_list),
                                   DictSet(args_dict, arg, NoneV))

\* the loop "for arg in args_list", lines 261-287
RECURSIVE process_args(_, _)
process_args(args_list, args_dict) ==
    IF args_list = <<>> THEN args_dict
    ELSE LET arg == Head(args_list)
             eq  == IndexFrom(arg, "=", 1)
         IN  IF eq # 0
             THEN LET key   == strip(Slice(arg, 1, eq - 1))
                      value == strip(Slice(arg, eq + 1, Len(arg)))
                  IN  process_args(Tail(args_list),
                                   DictSet(args_dict, key, coerce_value(value)))
             ELSE process_args(Tail(args_list), args_dict)

ParsedCall(name, kwargs) == [name |-> name, args |-> kwargs]

parse_function_call(func_call_str) ==
    LET name       == match_func_name(func_call_str)
        args_match == search_args(func_call_str)
    IN  IF name = NoneV THEN ParsedCall(NoneV, EmptyDict)
        ELSE IF args_match = NoneV THEN ParsedCall(name, EmptyDict)
        ELSE LET args_str == strip(args_match.v)
             IN  IF args_str = <<>> THEN ParsedCall(name, EmptyDict)
                 ELSE ParsedCall(name,
                          process_args(split_args(args_str), EmptyDict))

---------------------------------------------------------------------------
(* ast.literal_eval on a bracketed span, as process_llm1_response uses it. *)
(* The grammar covered: a list display of string literals (either quote,   *)
(* backslash escapes, adjacent literals concatenated), decimal integers,   *)
(* names, and brace displays, separated by commas, with optional white     *)
(* space and an optional trailing comma.  Parsing comes first (any syntax  *)
(* error wins), then the conversion of the nodes from left to right.       *)

PyList(elts) == [t |-> "list", v |-> elts]

PySet(elts) == [t |-> "set", v |-> elts]

PyDict0 == [t |-> "dict"]

SyntaxErr == [ok |-> FALSE]

\* the character a backslash escape stands for, or the pair kept as it is
Unescape(c) ==
    CASE c = "n" -> <<"\n">> [] c = "t" -> <<"\t">> [] c = "r" -> <<"\r">>
      [] c \in {"'", "\"", "\\"} -> <<c>>
      [] c = "\n" -> <<>>
      [] OTHER -> <<"\\", c>>

\* the body of a string literal opened by q (three times when triple)
RECURSIVE scan_string(_, _, _, _)
scan_string(s, q, triple, acc) ==
    IF s = <<>> THEN SyntaxErr
    ELSE IF triple /\ startswith(s, <<q, q, q>>)
    THEN [ok |-> TRUE, v |-> acc, rest |-> Slice(s, 4, Len(s))]
    ELSE IF ~triple /\ Head(s) = q
    THEN [ok |-> TRUE, v |-> acc, rest |-> Tail(s)]
    ELSE IF Head(s) = "\\"
    THEN IF Len(s) < 2 THEN SyntaxErr
         ELSE scan_string(Slice(s, 3, Len(s)), q, triple, acc \o Unescape(s[2]))
    ELSE IF ~triple /\ Head(s) \in {"\n", "\r"} THEN SyntaxErr
    ELSE scan_string(Tail(s), q, triple, Append(acc, Head(s)))

string_literal(s) ==
    LET q == Head(s)
    IN  IF startswith(s, <<q, q, q>>)
        THEN scan_string(Slice(s, 4, Len(s)), q, TRUE, <<>>)
        ELSE scan_string(Tail(s), q, FALSE, <<>>)

\* one or more adjacent string literals: their concatenation
RECURSIVE string_atom(_, _)
string_atom(s, acc) ==
    LET lit == string_literal(s)
    IN  IF ~lit.ok THEN SyntaxErr
        ELSE LET rest == lstrip(lit.rest)
             IN  IF rest # <<>> /\ Head(rest) \in {"'", "\""}
                 THEN string_atom(rest, acc \o lit.v)
                 ELSE [ok |-> TRUE, node |-> [k |-> "str", v |-> acc \o lit.v],
                       rest |-> lit.rest]

\* a decimal integer: no leading zero unless it is all zeros, no name glued to it
number_atom(s) ==
    LET k      == WordPrefix(s)
        digits == SubSeq(s, 1, k)
    IN  IF \/ ~isdigit(digits)
           \/ (Head(digits) = "0" /\ int(digits) # 0)
        THEN SyntaxErr
        ELSE [ok |-> TRUE, node |-> [k |-> "int", v |-> int(digits)],
              rest |-> Slice(s, k + 1, Len(s))]

name_atom(s) ==
    LET k == WordPrefix(s)
    IN  [ok |-> TRUE, node |-> [k |-> "name", v |-> SubSeq(s, 1, k)],
         rest |-> Slice(s, k + 1, Len(s))]

RECURSIVE parse_items(_, _, _, _)
RECURSIVE parse_atom(_)

\* an expression at the head of s
parse_atom(s) ==
    LET c == Head(s)
    IN  IF c \in {"'", "\""} THEN string_atom(s, <<>>)
        ELSE IF c \in Digits THEN number_atom(s)
        ELSE IF IsWord(c) THEN name_atom(s)
        ELSE IF c = "{"
        THEN LET inner == parse_items(Tail(s), "}", <<>>, FALSE)
             IN  IF ~inner.ok THEN SyntaxErr
                 ELSE [ok |-> TRUE,
                       node |-> IF inner.elts = <<>> THEN [k |-> "dict"]
                                ELSE [k |-> "set", elts |-> inner.elts],
                       rest |-> inner.rest]
        ELSE SyntaxErr

\* the expressions up to the closing character; after_item: one has just been read
parse_items(s, closer, elts, after_item) ==
    LET t == lstrip(s)
    IN  IF t = <<>> THEN SyntaxErr
        ELSE IF Head(t) = closer
        THEN [ok |-> TRUE, elts |-> elts, rest |-> Tail(t)]
        ELSE IF after_item
        THEN IF Head(t) = "," THEN parse_items(Tail(t), closer, elts, FALSE)
             ELSE SyntaxErr
        ELSE LET atom == parse_atom(t)
             IN  IF ~atom.ok THEN SyntaxErr
                 ELSE parse_items(atom.rest, closer, Append(elts, atom.node), TRUE)

Raised(exc) == [ok |-> FALSE, exc |-> exc]

Value(v) == [ok |-> TRUE, v |-> v]

RECURSIVE convert(_)
RECURSIVE convert_all(_, _, _)

\* _convert of ast.literal_eval: the value of a node, or the exception raised
convert(node) ==
    CASE node.k = "str"  -> Value(PyStr(node.v))
      [] node.k = "int"  -> Value(PyInt(node.v))
      [] node.k = "dict" -> Value(PyDict0)
      [] node.k = "name" ->
            IF node.v = <<"T", "r", "u", "e">> THEN Value(PyBool(TRUE))
            ELSE IF node.v = <<"F", "a", "l", "s", "e">> THEN Value(PyBool(FALSE))
            ELSE IF node.v = <<"N", "o", "n", "e">> THEN Value(NoneV)
            ELSE Raised("ValueError")
      [] node.k = "set"  ->
            LET r == convert_all(node.elts, <<>>, TRUE)
            IN  IF r.ok THEN Value(PySet({r.v[n] : n \in 1..Len(r.v)})) ELSE r
      [] node.k = "list" ->
            LET r == convert_all(node.elts, <<>>, FALSE)
            IN  IF r.ok THEN Value(PyList(r.v)) ELSE r

\* the elements in order; in a set display each one is hashed as it is added
convert_all(elts, acc, hashed) ==
    IF elts = <<>> THEN Value(acc)
    ELSE LET r == convert(Head(elts))
         IN  IF ~r.ok THEN r
             ELSE IF hashed /\ r.v.t \in {"list", "set", "dict"} THEN Raised("TypeError")
             ELSE convert_all(Tail(elts), Append(acc, r.v), hashed)

\* ast.literal_eval(span) for a span that opens with "["
literal_eval(span) ==
    LET p == parse_items(Tail(span), "]", <<>>, FALSE)
    IN  IF ~p.ok \/ lstrip(p.rest) # <<>> THEN Raised("SyntaxError")
        ELSE convert([k |-> "list", elts |-> p.elts])

---------------------------------------------------------------------------
(* List mode: process_llm1_response, src/main.py:168-204 *)

\* re.search(r"\[(.*?)\]", response, re.DOTALL): group(0) as a str, or None.
\* Leftmost "[" that has a "]" after it, then non-greedy to the first "]".
search_list(response) ==
    LET p == IndexFrom(response, "[", 1)
        q == IF p = 0 THEN 0 ELSE IndexFrom(response, "]", p + 1)
    IN  IF p = 0 \/ q = 0 THEN NoneV ELSE PyStr(SubSeq(response, p, q))

\* number of leading characters of s that are a digit, a dash or an asterisk
MarkerPrefix(s) ==
    LET other == {k \in 1..Len(s) : s[k] \notin Digits \cup {"-", "*"}}
    IN  IF other = {} THEN Len(s) ELSE (CHOOSE k \in other : \A m \in other : k <= m) - 1

\* re.sub(r'^\s*[\d\-\*]+\.\s*', '', line)
sub_marker(line) ==
    LET a == lstrip(line)
        m == MarkerPrefix(a)
        b == Slice(a, m + 1, Len(a))
    IN  IF m >= 1 /\ b # <<>> /\ Head(b) = "." THEN lstrip(Tail(b)) ELSE line

\* the loop "for line in lines", lines 189-193
RECURSIVE collect_lines(_, _)
collect_lines(lines, potential_list) ==
    IF lines = <<>> THEN potential_list
    ELSE LET line       == Head(lines)
             clean_line == strip(sub_marker(line))
         IN  IF clean_line # <<>> /\ line # clean_line
             THEN collect_lines(Tail(lines), Append(potential_list, PyStr(clean_line)))
             ELSE collect_lines(Tail(lines), potential_list)

Return(v) == [kind |-> "return", v |-> v]

Raise(exc) == [kind |-> "raise", exc |-> exc]

\* line_fallback without its last resort of line 199
line_fallback_no_single(response) == collect_lines(split(response, "\n"), <<>>)

\* lines 187-199: the numbered or bulleted lines, else the whole response
line_fallback(response) ==
    LET potential_list == collect_lines(split(response, "\n"), <<>>)
    IN  IF potential_list # <<>> THEN potential_list
        ELSE <<PyStr(strip(response))>>

\* "except (SyntaxError, ValueError)": the exceptions the function turns into []
caught(exc) == exc \in {"SyntaxError", "ValueError"}

process_llm1_response(response) ==
    LET match == search_list(response)
    IN  IF match # NoneV
        THEN LET r == literal_eval(match.v)
             IN  IF r.ok THEN Return(r.v.v)
                 ELSE IF caught(r.exc) THEN Return(<<>>)
                 ELSE Raise(r.exc)
        ELSE Return(line_fallback(response))

---------------------------------------------------------------------------
(* Registry: load_functions_from_directory, src/main.py:32-64 *)

\* a function found in a module: its name and its signature
Function(name, params, required) ==
    [name |-> name, params |-> params, required |-> required]

\* a file of the scanned tree: loads says whether exec_module succeeds
File(filename, loads, functions) ==
    [filename |-> filename, loads |-> loads, functions |-> functions]

\* register_functions that leaves a name alone once it is registered
RECURSIVE register_functions_keep_first(_, _)
register_functions_keep_first(registry, functions) ==
    IF functions = <<>> THEN registry
    ELSE LET f == Head(functions)
         IN  IF startswith(f.name, <<"a", "i", "_">>) /\ f.name \notin DOMAIN registry
             THEN register_functions_keep_first(
                      DictSet(registry, f.name,
                              [params |-> f.params, required |-> f.required]),
                      Tail(functions))
             ELSE register_functions_keep_first(registry, Tail(functions))

\* the functions of one loaded module that start with "ai_", registered in turn
RECURSIVE register_functions(_, _)
register_functions(registry, functions) ==
    IF functions = <<>> THEN registry
    ELSE LET f == Head(functions)
         IN  IF startswith(f.name, <<"a", "i", "_">>)
             THEN register_functions(
                      DictSet(registry, f.name,
                              [params |-> f.params, required |-> f.required]),
                      Tail(functions))
             ELSE register_functions(registry, Tail(functions))

\* load_files without the try/except of lines 49-64: the first module that
\* fails to load ends the scan
RECURSIVE load_files_abort(_, _)
load_files_abort(registry, files) ==
    IF files = <<>> THEN registry
    ELSE LET f == Head(files)
         IN  IF /\ endswith(f.filename, <<".", "p", "y">>)
                /\ ~startswith(f.filename, <<"_", "_">>)
             THEN IF f.loads
                  THEN load_files_abort(register_functions(registry, f.functions),
                                        Tail(files))
                  ELSE registry
             ELSE load_files_abort(registry, Tail(files))

\* load_files without the test on the file name of line 45
RECURSIVE load_files_unfiltered(_, _)
load_files_unfiltered(registry, files) ==
    IF files = <<>> THEN registry
    ELSE LET f == Head(files)
         IN  IF f.loads
             THEN load_files_unfiltered(register_functions(registry, f.functions),
                                        Tail(files))
             ELSE load_files_unfiltered(registry, Tail(files))

\* the loop over the files of os.walk(directory), in the order of the walk
RECURSIVE load_files(_, _)
load_files(registry, files) ==
    IF files = <<>> THEN registry
    ELSE LET f == Head(files)
         IN  IF /\ endswith(f.filename, <<".", "p", "y">>)
                /\ ~startswith(f.filename, <<"_", "_">>)
                /\ f.loads
             THEN load_files(register_functions(registry, f.functions), Tail(files))
             ELSE load_files(registry, Tail(files))

\* load_functions_from_directory that empties the registry before the scan
load_functions_from_directory_cleared(registry, directory) ==
    IF directory = NoneV THEN registry ELSE load_files(EmptyDict, directory.v)

\* directory: the files of the tree, or None when it is not a directory
load_functions_from_directory(registry, directory) ==
    IF directory = NoneV THEN registry ELSE load_files(registry, directory.v)

---------------------------------------------------------------------------
(* Dispatcher: execute_function, src/main.py:296-328 *)

\* an exception object: its class and str(e), a sequence of pieces of text
Exc(class, msg) == [kind |-> "raise", exc |-> class, msg |-> msg]

\* valid_args that passes every key on
valid_args_unfiltered(params, kwargs, acc) == kwargs

\* the loop over sig.parameters that fills valid_args, lines 316-319
RECURSIVE valid_args(_, _, _)
valid_args(params, kwargs, acc) ==
    IF params = <<>> THEN acc
    ELSE LET param_name == Head(params)
         IN  IF param_name \in DOMAIN kwargs
             THEN valid_args(Tail(params), kwargs,
                             DictSet(acc, param_name, kwargs[param_name]))
             ELSE valid_args(Tail(params), kwargs, acc)

in_registry(registry, name) == name.t = "str" /\ name.v \in DOMAIN registry

\* execute_function without the registry check: an unknown name does nothing
execute_function_silent(registry, name, kwargs, body) ==
    IF ~in_registry(registry, name)
    THEN [called |-> FALSE, entered |-> FALSE, kwargs |-> EmptyDict,
          out |-> [kind |-> "return", v |-> NoneV]]
    ELSE LET func  == registry[name.v]
             valid == valid_args(func.params, kwargs, EmptyDict)
         IN  IF func.required \subseteq DOMAIN valid
             THEN [called |-> TRUE, entered |-> TRUE, kwargs |-> valid, out |-> body]
             ELSE [called |-> TRUE, entered |-> FALSE, kwargs |-> valid,
                   out |-> Exc("TypeError", <<"missing required positional argument">>)]

\* execute_function that raises a new exception of its own in the except
\* clause of lines 326-328 instead of re-raising the tool's
execute_function_wrapped(registry, name, kwargs, body) ==
    IF ~in_registry(registry, name)
    THEN [called |-> FALSE, entered |-> FALSE, kwargs |-> EmptyDict,
          out |-> Exc("ValueError",
                      <<"Function '">> \o (IF name.t = "str" THEN name.v ELSE <<"None">>)
                          \o <<"' not found in registry">>)]
    ELSE LET func  == registry[name.v]
             valid == valid_args(func.params, kwargs, EmptyDict)
         IN  IF func.required \subseteq DOMAIN valid
             THEN [called |-> TRUE, entered |-> TRUE, kwargs |-> valid,
                   out |-> IF body.kind = "raise"
                           THEN Exc("RuntimeError", <<"Error executing function">>)
                           ELSE body]
             ELSE [called |-> TRUE, entered |-> FALSE, kwargs |-> valid,
                   out |-> Exc("TypeError", <<"missing required positional argument">>)]

\* execute_function that goes on to the call when the name is no key of the
\* registry
execute_function_unchecked(registry, name, kwargs, body) ==
    IF ~in_registry(registry, name)
    THEN [called |-> TRUE, entered |-> FALSE, kwargs |-> EmptyDict,
          out |-> Exc("KeyError", IF name.t = "str" THEN name.v ELSE <<"None">>)]
    ELSE LET func  == registry[name.v]
             valid == valid_args(func.params, kwargs, EmptyDict)
         IN  IF func.required \subseteq DOMAIN valid
             THEN [called |-> TRUE, entered |-> TRUE, kwargs |-> valid, out |-> body]
             ELSE [called |-> TRUE, entered |-> FALSE, kwargs |-> valid,
                   out |-> Exc("TypeError", <<"missing required positional argument">>)]

\* body: what the tool's own code does once it is entered, chosen by the
\* environment: Return(value) or Exc(class, msg).
\* The outcome: called says whether func(**valid_args) was reached, kwargs
\* what it was given, entered whether the call bound its parameters.
execute_function(registry, name, kwargs, body) ==
    IF ~in_registry(registry, name)
    THEN [called |-> FALSE, entered |-> FALSE, kwargs |-> EmptyDict,
          out |-> Exc("ValueError",
                      <<"Function '">> \o (IF name.t = "str" THEN name.v ELSE <<"None">>)
                          \o <<"' not found in registry">>)]
    ELSE LET func  == registry[name.v]
             valid == valid_args(func.params, kwargs, EmptyDict)
         IN  IF func.required \subseteq DOMAIN valid
             THEN [called |-> TRUE, entered |-> TRUE, kwargs |-> valid, out |-> body]
             ELSE [called |-> TRUE, entered |-> FALSE, kwargs |-> valid,
                   out |-> Exc("TypeError", <<"missing required positional argument">>)]

---------------------------------------------------------------------------
(* The scanned tree and the texts the language model may return *)

\* src/functions/email_services.py:9
n_ai_send_email ==
    <<"a", "i", "_", "s", "e", "n", "d", "_", "e", "m", "a", "i", "l">>

\* src/functions/email_services.py:56
n_ai_send_calendar_invite ==
    <<"a", "i", "_", "s", "e", "n", "d", "_", "c", "a", "l", "e", "n", "d",
      "a", "r", "_", "i", "n", "v", "i", "t", "e">>

\* a helper that does not carry the prefix
n_convert_to_utc ==
    <<"c", "o", "n", "v", "e", "r", "t", "_", "t", "o", "_", "u", "t", "c">>

\* parameter name
n_subject ==
    <<"s", "u", "b", "j", "e", "c", "t">>

\* parameter name
n_body ==
    <<"b", "o", "d", "y">>

\* parameter name
n_start_time ==
    <<"s", "t", "a", "r", "t", "_", "t", "i", "m", "e">>

\* parameter name
n_end_time ==
    <<"e", "n", "d", "_", "t", "i", "m", "e">>

\* parameter name
n_timezone ==
    <<"t", "i", "m", "e", "z", "o", "n", "e">>

\* file name
f_email_services ==
    <<"e", "m", "a", "i", "l", "_", "s", "e", "r", "v", "i", "c", "e", "s",
      ".", "p", "y">>

\* file name
f_init ==
    <<"_", "_", "i", "n", "i", "t", "_", "_", ".", "p", "y">>

\* the tree run_agent scans by default: functions/
FunctionsDir ==
    [t |-> "dir",
     v |-> << File(f_init, TRUE, <<>>),
              File(f_email_services, TRUE,
                   << Function(n_ai_send_email, <<n_subject, n_body>>,
                               {n_subject, n_body}),
                      Function(n_convert_to_utc, <<n_subject>>, {n_subject}),
                      Function(n_ai_send_calendar_invite,
                               <<n_subject, n_body, n_start_time, n_end_time, n_timezone>>,
                               {n_subject, n_body, n_start_time, n_end_time,
                                n_timezone}) >>) >>]

\* functions_dir is a parameter of run_agent: the default tree, or no directory
Directories == {FunctionsDir, NoneV}

\* what get_llm1_completion and get_llm2_completion return on a failure, lines 122, 151
LLMErrorText ==
    <<"A", "n", " ", "e", "r", "r", "o", "r", " ", "o", "c", "c", "u", "r",
      "r", "e", "d", " ", "w", "h", "i", "l", "e", " ", "g", "e", "n", "e",
      "r", "a", "t", "i", "n", "g", " ", "t", "h", "e", " ", "r", "e", "s",
      "p", "o", "n", "s", "e", ".">>

\* a call of a registered tool with exactly its parameters
CallPlain ==
    <<"a", "i", "_", "s", "e", "n", "d", "_", "e", "m", "a", "i", "l", "(",
      "s", "u", "b", "j", "e", "c", "t", "=", "\"", "H", "i", "\"", ",",
      " ", "b", "o", "d", "y", "=", "\"", "a", ",", "b", "\"", ")">>

\* a call with a key that is no parameter of the tool
CallExtraKey ==
    <<"a", "i", "_", "s", "e", "n", "d", "_", "e", "m", "a", "i", "l", "(",
      "s", "u", "b", "j", "e", "c", "t", "=", "\"", "H", "i", "\"", ",",
      " ", "b", "o", "d", "y", "=", "\"", "b", "\"", ",", " ", "c", "c",
      "=", "1", ")">>

\* a call that lacks a required parameter
CallMissingKey ==
    <<"a", "i", "_", "s", "e", "n", "d", "_", "e", "m", "a", "i", "l", "(",
      "s", "u", "b", "j", "e", "c", "t", "=", "\"", "H", "i", "\"", ")">>

\* a call of a name that no module defines
CallUnknown ==
    <<"a", "i", "_", "f", "l", "y", "(", "x", "=", "1", ")">>

\* a call of the second tool with all its parameters and one key more
CallInvite ==
    <<"a", "i", "_", "s", "e", "n", "d", "_", "c", "a", "l", "e", "n", "d",
      "a", "r", "_", "i", "n", "v", "i", "t", "e", "(", "s", "u", "b", "j",
      "e", "c", "t", "=", "\"", "S", "\"", ",", " ", "b", "o", "d", "y",
      "=", "\"", "B", "\"", ",", " ", "s", "t", "a", "r", "t", "_", "t",
      "i", "m", "e", "=", "\"", "9", "\"", ",", " ", "e", "n", "d", "_",
      "t", "i", "m", "e", "=", "\"", "1", "0", "\"", ",", " ", "t", "i",
      "m", "e", "z", "o", "n", "e", "=", "\"", "U", "T", "C", "\"", ",",
      " ", "r", "o", "o", "m", "=", "7", ")">>

\* the backquote character (U+0060), which a string of this module cannot
\* hold, is written with a character that no text of the model uses otherwise
BQ == "@"

Fence == <<BQ, BQ, BQ>>

\* a call wrapped in a code fence
CallFenced ==
    Fence \o
    <<"a", "i", "_", "s", "e", "n", "d", "_", "e", "m", "a", "i", "l", "(",
      "b", "o", "d", "y", "=", "'", "x", "'", ",", " ", "s", "u", "b", "j",
      "e", "c", "t", "=", "'", "y", "'", ")">>
    \o Fence

\* a completion of two calls, the second on a line of its own
CallTwice ==
    <<"a", "i", "_", "s", "e", "n", "d", "_", "e", "m", "a", "i", "l", "(",
      "s", "u", "b", "j", "e", "c", "t", "=", "\"", "a", "\"", ",", " ",
      "b", "o", "d", "y", "=", "\"", "b", "\"", ")", "\n",
      "a", "i", "_", "s", "e", "n", "d", "_", "e", "m", "a", "i", "l", "(",
      "s", "u", "b", "j", "e", "c", "t", "=", "\"", "c", "\"", ",", " ",
      "b", "o", "d", "y", "=", "\"", "d", "\"", ")">>

\* a call that is cut off before its closing parenthesis
CallUnclosed ==
    <<"a", "i", "_", "s", "e", "n", "d", "_", "e", "m", "a", "i", "l", "(",
      "s", "u", "b", "j", "e", "c", "t", "=", "\"", "H", "i", "\"", ",",
      " ", "b", "o", "d", "y", "=", "\"", "b", "\"">>

ExecutorTexts ==
    {CallPlain, CallExtraKey, CallMissingKey, CallUnknown, CallInvite, CallFenced,
     CallTwice, CallUnclosed, LLMErrorText}

\* what a tool call meets: for the tools of email_services.py, whether
\* EMAIL_PASSWORD is set and whether the SMTP session (connect, starttls,
\* login, sendmail) goes through or raises; for a tool in general, an
\* exception its body raises, with a message or without one (raise
\* ValueError())
Environments ==
    { [t |-> "email", password |-> FALSE, smtp |-> "sent"],
      [t |-> "email", password |-> TRUE, smtp |-> "sent"],
      [t |-> "email", password |-> TRUE, smtp |-> "error"],
      [t |-> "tool", body |-> Exc("Exception", <<>>)] }

\* src/functions/email_services.py:9-53
ai_send_email(env) ==
    IF ~env.password
    THEN Exc("ValueError", <<"EMAIL_PASSWORD environment variable is not set.">>)
    ELSE IF env.smtp = "sent"
    THEN [kind |-> "return", v |-> NoneV]
    \* except Exception of lines 52-53: the error is logged
    ELSE [kind |-> "return", v |-> NoneV]

\* src/functions/email_services.py:56-137, its time zone taken as valid
ai_send_calendar_invite(env) ==
    IF ~env.password
    THEN Exc("ValueError", <<"EMAIL_PASSWORD environment variable is not set.">>)
    ELSE IF env.smtp = "sent"
    THEN [kind |-> "return", v |-> NoneV]
    \* except Exception of lines 136-137: the error is logged
    ELSE [kind |-> "return", v |-> NoneV]

\* what the body of the tool called name does in env
tool_body(name, env) ==
    IF env.t = "tool" THEN env.body
    ELSE IF name = PyStr(n_ai_send_calendar_invite) THEN ai_send_calendar_invite(env)
    ELSE ai_send_email(env)

\* what the body of a tool may do
ToolBodies ==
    {tool_body(PyStr(name), env) :
        name \in {n_ai_send_email, n_ai_send_calendar_invite}, env \in Environments}

---------------------------------------------------------------------------
(* repr of a str and of a list of str: the list-literal text of a plan *)

\* one character of the text inside the quotes q
repr_char(c, q) ==
    CASE c = q \/ c = "\\" -> <<"\\", c>>
      [] c = "\n" -> <<"\\", "n">>
      [] c = "\t" -> <<"\\", "t">>
      [] c = "\r" -> <<"\\", "r">>
      [] OTHER -> <<c>>

RECURSIVE repr_body(_, _)
repr_body(s, q) ==
    IF s = <<>> THEN <<>> ELSE repr_char(Head(s), q) \o repr_body(Tail(s), q)

\* repr(s): single quotes, unless s holds a single quote and no double quote
repr_str(s) ==
    LET q == IF IndexFrom(s, "'", 1) # 0 /\ IndexFrom(s, "\"", 1) = 0
             THEN "\"" ELSE "'"
    IN  <<q>> \o repr_body(s, q) \o <<q>>

RECURSIVE repr_items(_)
repr_items(l) ==
    IF l = <<>> THEN <<>>
    ELSE IF Len(l) = 1 THEN repr_str(l[1])
    ELSE repr_str(l[1]) \o <<",", " ">> \o repr_items(Tail(l))

\* str(l) of a list of str
repr_list(l) == <<"[">> \o repr_items(l) \o <<"]">>

---------------------------------------------------------------------------
(* run_agent, src/main.py:330-468 *)

\* longest plan the planner texts of the agent specification hold
MaxPlan == 2

PlanItem == <<"D", "o", " ", "X">>

\* planner completions: a list literal of 0..MaxPlan items, a numbered list,
\* the failure text, a span that is no literal, and a span whose value is
\* no hashable set member
PlannerTexts ==
    { repr_list([n \in 1..k |-> PlanItem]) : k \in 0..MaxPlan }
    \cup { <<"1", ".", " ", "a", "\n", "2", ".", " ", "b">>,
           LLMErrorText,
           <<"[", "a", " ", "b", "]">>,
           <<"[", "{", "{", "}", "}", "]">> }

\* clean_response that takes a marker at either end for a fence
clean_response_either_end(llm2_response) ==
    LET stripped == strip(llm2_response)
    IN  IF startswith(stripped, Fence) \/ endswith(stripped, Fence)
        THEN strip(Slice(stripped, 4, Len(stripped) - 3))
        ELSE stripped

\* lines 439-441: llm2_response.strip(), then the fence removed
clean_response(llm2_response) ==
    LET stripped == strip(llm2_response)
    IN  IF startswith(stripped, Fence) /\ endswith(stripped, Fence)
        THEN strip(Slice(stripped, 4, Len(stripped) - 3))
        ELSE stripped

\* lines 415-420
new_results == [subtasks |-> <<>>, success |-> TRUE, error |-> NoneV]

\* record_subtask that overwrites the top-level error on every failure
record_subtask_last_error(res, idx, subtask, out) ==
    LET failed == out.kind = "raise"
        subtask_result ==
            [id |-> idx + 1, description |-> subtask, function_call |-> NoneV,
             success |-> ~failed,
             result |-> IF failed THEN NoneV ELSE PyStr(<<"str(func_result)">>),
             error |-> IF failed THEN PyStr(out.msg) ELSE NoneV]
    IN  [subtasks |-> Append(res.subtasks, subtask_result),
         success |-> IF failed THEN FALSE ELSE res.success,
         error |-> IF failed
                   THEN PyStr(<<"Error in subtask ", ToString(idx + 1), ": ">> \o out.msg)
                   ELSE res.error]

\* record_subtask that sets the overall flag from the last subtask alone
record_subtask_last_success(res, idx, subtask, out) ==
    LET failed == out.kind = "raise"
        subtask_result ==
            [id |-> idx + 1, description |-> subtask, function_call |-> NoneV,
             success |-> ~failed,
             result |-> IF failed THEN NoneV ELSE PyStr(<<"str(func_result)">>),
             error |-> IF failed THEN PyStr(out.msg) ELSE NoneV]
    IN  [subtasks |-> Append(res.subtasks, subtask_result),
         success |-> ~failed,
         error |-> IF failed /\ ~Truthy(res.error)
                   THEN PyStr(<<"Error in subtask ", ToString(idx + 1), ": ">> \o out.msg)
                   ELSE res.error]

\* one iteration's bookkeeping, lines 423-430 and 455-465: out is what the
\* try block ended with, Return(value) or Exc(class, msg)
record_subtask(res, idx, subtask, out) ==
    LET failed == out.kind = "raise"
        subtask_result ==
            [id |-> idx + 1, description |-> subtask, function_call |-> NoneV,
             success |-> ~failed,
             result |-> IF failed THEN NoneV ELSE PyStr(<<"str(func_result)">>),
             error |-> IF failed THEN PyStr(out.msg) ELSE NoneV]
    IN  [subtasks |-> Append(res.subtasks, subtask_result),
         success |-> IF failed THEN FALSE ELSE res.success,
         error |-> IF failed /\ ~Truthy(res.error)
                   THEN PyStr(<<"Error in subtask ", ToString(idx + 1), ": ">> \o out.msg)
                   ELSE res.error]

\* after_iteration of a loop that stops at the first failure
after_iteration_fail_fast(out) == IF out.kind = "raise" THEN "done" ELSE "loop"

\* where the loop goes after an iteration: the except clause catches every
\* Exception, so the next subtask follows whatever the outcome was
after_iteration(out) == "loop"

Init ==
    /\ pc = "start"
    /\ function_registry = EmptyDict
    /\ llm1_response = NoneV
    /\ subtasks = <<>>
    /\ i = 0
    /\ func_name = NoneV
    /\ args = EmptyDict
    /\ pending = NoneV
    /\ results = NoneV
    /\ calls = <<>>
    /\ parsed = <<>>
    /\ escaped = NoneV
    /\ p_in = NoneV
    /\ p_out = NoneV
    /\ p_pc = "idle"

\* line 342
LoadFunctions ==
    /\ pc = "start"
    /\ \E directory \in Directories :
          function_registry' = load_functions_from_directory(function_registry, directory)
    /\ pc' = "plan"
    /\ UNCHANGED <<llm1_response, subtasks, i, func_name, args, pending, results,
                   calls, parsed, escaped, parser_vars>>

\* lines 379-380 and 415-420
Plan ==
    /\ pc = "plan"
    /\ \E text \in PlannerTexts :
          LET r == process_llm1_response(text)
          IN  /\ llm1_response' = PyStr(text)
              /\ IF r.kind = "return"
                 THEN /\ subtasks' = r.v
                      /\ results' = new_results
                      /\ pc' = "loop"
                      /\ UNCHANGED escaped
                 ELSE /\ escaped' = r
                      /\ pc' = "raised"
                      /\ UNCHANGED <<subtasks, results>>
    /\ UNCHANGED <<function_registry, i, func_name, args, pending, calls, parsed,
                   parser_vars>>

\* lines 434-445: the executor completion, cleaned and parsed
ExecutorCall ==
    /\ pc = "loop"
    /\ i < Len(subtasks)
    /\ \E llm2_response \in ExecutorTexts :
          LET clean == clean_response(llm2_response)
              call  == parse_function_call(clean)
          IN  /\ func_name' = call.name
              /\ args' = call.args
              /\ parsed' = Append(parsed, [sub |-> i + 1, text |-> clean,
                                           name |-> call.name, args |-> call.args])
    /\ pc' = "parsed"
    /\ UNCHANGED <<function_registry, llm1_response, subtasks, i, pending, results,
                   calls, escaped, parser_vars>>

\* lines 447-453
Dispatch ==
    /\ pc = "parsed"
    /\ IF ~Truthy(func_name)
       THEN /\ pending' = Exc("ValueError", <<"Could not parse function call: ">>
                                                \o parsed[Len(parsed)].text)
            /\ UNCHANGED calls
       ELSE \E env \in Environments :
               LET r == execute_function(function_registry, func_name, args,
                                         tool_body(func_name, env))
               IN  /\ pending' = r.out
                   /\ calls' = IF r.called
                               THEN Append(calls, [sub |-> i + 1, tool |-> func_name.v,
                                                   kwargs |-> r.kwargs,
                                                   entered |-> r.entered,
                                                   env |-> IF r.entered THEN env
                                                           ELSE NoneV,
                                                   out |-> r.out,
                                                   recorded |-> Len(results.subtasks)])
                               ELSE calls
    /\ pc' = "dispatched"
    /\ UNCHANGED <<function_registry, llm1_response, subtasks, i, func_name, args,
                   results, parsed, escaped, parser_vars>>

\* lines 455-466
Record ==
    /\ pc = "dispatched"
    /\ results' = record_subtask(results, i, subtasks[i + 1], pending)
    /\ i' = i + 1
    /\ pc' = after_iteration(pending)
    /\ pending' = NoneV
    /\ UNCHANGED <<function_registry, llm1_response, subtasks, func_name, args,
                   calls, parsed, escaped, parser_vars>>

\* line 468
ReturnResults ==
    /\ pc = "loop"
    /\ i = Len(subtasks)
    /\ pc' = "done"
    /\ UNCHANGED <<function_registry, llm1_response, subtasks, i, func_name, args,
                   pending, results, calls, parsed, escaped, parser_vars>>

Next == LoadFunctions \/ Plan \/ ExecutorCall \/ Dispatch \/ Record \/ ReturnResults

Spec == Init /\ [][Next]_vars

---------------------------------------------------------------------------
(* List mode on its own: a plan is written as its list literal, or a text  *)
(* is taken as it is, and process_llm1_response is applied.                *)

\* characters of the items of a plan
ItemChars == {"a", "]", "[", ",", "'", "\""}

\* most items of a plan, and most characters of all its items together
MaxItems == 2

MaxChars == 2

\* the texts over ItemChars of at most n characters
RECURSIVE StrsUpTo(_)
StrsUpTo(n) ==
    IF n = 0 THEN {<<>>}
    ELSE LET shorter == StrsUpTo(n - 1)
         IN  shorter \cup {Append(t, c) : t \in shorter, c \in ItemChars}

\* the lists of at most n items that hold at most budget characters
RECURSIVE ListsUpTo(_, _)
ListsUpTo(n, budget) ==
    IF n = 0 THEN {<<>>}
    ELSE {<<>>} \cup
         UNION { {<<t>> \o rest : rest \in ListsUpTo(n - 1, budget - Len(t))}
                 : t \in StrsUpTo(budget) }

\* what may come first in a planner text: nothing, or a bracketed span
Spans ==
    { <<>>,
      <<"[", "]">>,
      <<"[", "'", "a", "'", "]">>,
      <<"[", "a", " ", "b", "]">>,
      <<"[", "a", "]">>,
      <<"[", "'", "a", "]">>,
      <<"[", "{", "{", "}", "}", "]">> }

\* the lines that may follow it
Lines ==
    { <<"1", ".", " ", "a">>,
      <<"-", " ", "b">>,
      <<"*", ".", "c">>,
      <<" ", "d">>,
      <<"e">>,
      <<>> }

\* most lines after the span
MaxLines == 2

RECURSIVE LineSeqs(_)
LineSeqs(n) ==
    IF n = 0 THEN {<<>>}
    ELSE LET shorter == LineSeqs(n - 1)
         IN  shorter \cup {Append(ls, l) : ls \in shorter, l \in Lines}

RECURSIVE join_lines(_)
join_lines(ls) ==
    IF ls = <<>> THEN <<>> ELSE <<"\n">> \o Head(ls) \o join_lines(Tail(ls))

PlanTexts == {span \o join_lines(ls) : span \in Spans, ls \in LineSeqs(MaxLines)}

InitList ==
    /\ pc = "idle"
    /\ function_registry = EmptyDict
    /\ llm1_response = NoneV
    /\ subtasks = <<>>
    /\ i = 0
    /\ func_name = NoneV
    /\ args = EmptyDict
    /\ pending = NoneV
    /\ results = NoneV
    /\ calls = <<>>
    /\ parsed = <<>>
    /\ escaped = NoneV
    /\ p_out = NoneV
    /\ \/ /\ p_pc = "list"
          /\ p_in \in {[t |-> "list", v |-> l] : l \in ListsUpTo(MaxItems, MaxChars)}
       \/ /\ p_pc = "text"
          /\ p_in \in {[t |-> "text", v |-> text] : text \in PlanTexts}

\* the planner writes the plan as a list literal
FormatList ==
    /\ p_pc = "list"
    /\ p_in' = [t |-> "repr", v |-> repr_list(p_in.v), of |-> p_in.v]
    /\ p_pc' = "text"
    /\ UNCHANGED <<p_out, agent_vars>>

\* line 380
ParseList ==
    /\ p_pc = "text"
    /\ p_out' = process_llm1_response(p_in.v)
    /\ p_pc' = "parsed"
    /\ UNCHANGED <<p_in, agent_vars>>

NextList == FormatList \/ ParseList

SpecList == InitList /\ [][NextList]_vars

---------------------------------------------------------------------------
(* Call mode on its own: a call is written as name(key=value, ...) and     *)
(* parse_function_call is applied.                                         *)

\* the keys of the arguments of a written call, in order
ArgKeys == << <<"a">>, <<"b">> >>

\* words a model may write for a value without quotes
Words ==
    { <<"t", "r", "u", "e">>, <<"T", "r", "u", "e">>, <<"T", "R", "U", "E">>,
      <<"f", "a", "l", "s", "e">>, <<"F", "a", "l", "s", "e">>,
      <<"n", "o", "n", "e">>, <<"N", "o", "n", "e">>,
      <<"x">>, <<"t", "r", "u", "e", "x">>, <<"n", "o">>,
      <<"-", "7">>, <<"7", "e", "7">>, <<"0", "0", "7">>, <<"7", ".", "5", "0">>,
      <<Sup2>>, <<"7", Sup2>>, <<"7", ".", Sup2>> }

\* characters of a number
NumChars == {"7", "."}

\* longest text over NumChars written as a value
MaxValLen == 3

RECURSIVE NumStrs(_)
NumStrs(n) ==
    IF n = 0 THEN {<<>>}
    ELSE LET shorter == NumStrs(n - 1)
         IN  shorter \cup {Append(t, c) : t \in shorter, c \in NumChars}

\* what a model may write between quotes
QuotedBodies ==
    { <<>>, <<"x", ",", "y">>, <<"t", "r", "u", "e">>, <<"n", "o", "n", "e">>,
      <<"7">>, <<"7", ".", "5">>, <<" ", "x", " ">>, <<"a", "=", "b">>,
      <<"(", "x", ")">> }

Quoted ==
    { <<q>> \o body \o <<q>> : q \in {"'", "\""}, body \in QuotedBodies }
    \cup { <<"\"", "a", "'", "b", ",", "c", "\"">>, <<"'", "a", "\"", "b", ",", "c", "'">> }

RawValues == Words \cup (NumStrs(MaxValLen) \ {<<>>}) \cup Quoted

\* the written calls: a name and one value for each of the first keys
WrittenCalls ==
    UNION { {[name |-> <<"f">>, keys |-> SubSeq(ArgKeys, 1, n), values |-> vs]
               : vs \in [1..n -> RawValues]}
            : n \in 0..Len(ArgKeys) }

\* f(a=1, b="x,y", c=true, d=none)
ExampleCall ==
    [name |-> <<"f">>,
     keys |-> << <<"a">>, <<"b">>, <<"c">>, <<"d">> >>,
     values |-> << <<"1">>, <<"\"", "x", ",", "y", "\"">>, <<"t", "r", "u", "e">>,
                   <<"n", "o", "n", "e">> >>]

RECURSIVE format_args(_, _)
format_args(keys, values) ==
    IF keys = <<>> THEN <<>>
    ELSE Head(keys) \o <<"=">> \o Head(values)
         \o (IF Len(keys) > 1 THEN <<",", " ">> ELSE <<>>)
         \o format_args(Tail(keys), Tail(values))

\* the text of a written call
format_call(call) == call.name \o <<"(">> \o format_args(call.keys, call.values) \o <<")">>

\* ai_add(a=2, b=3)
AddCall ==
    [name |-> <<"a", "i", "_", "a", "d", "d">>,
     keys |-> ArgKeys,
     values |-> << <<"2">>, <<"3">> >>]

\* the ways an executor completion may carry a call: between two markers
\* (with nothing, a line break or a space around the call), after a marker
\* and a language tag, with a marker at one end only, or bare
Wraps == {"fence", "fence_nl", "fence_sp", "tagged", "open", "close", "bare"}

wrap(kind, text) ==
    CASE kind = "fence"    -> Fence \o text \o Fence
      [] kind = "fence_nl" -> Fence \o <<"\n">> \o text \o <<"\n">> \o Fence
      [] kind = "fence_sp" -> Fence \o <<" ">> \o text \o <<" ">> \o Fence
      [] kind = "tagged"   -> Fence \o <<"p", "y", "t", "h", "o", "n", "\n">> \o text
                                 \o <<"\n">> \o Fence
      [] kind = "open"     -> Fence \o text
      [] kind = "close"    -> text \o Fence
      [] kind = "bare"     -> text

\* the completions get_llm2_completion returns for a written call: the text
\* of line 147, which is stripped
Responses ==
    { [t |-> "response", v |-> wrap(kind, format_call(call)), call |-> call,
       wrap |-> kind]
        : kind \in Wraps,
          call \in {AddCall} \cup {c \in WrittenCalls : Len(c.keys) = 1} }

\* texts given to parse_function_call as they are: what clean_response may
\* hand over besides a well-written call (stripped, as line 439 leaves them)
RawTexts ==
    { <<"f", "(", "a", "=", "7", ")">>,
      <<"f", "(", ")">>,
      <<"f">>,
      <<>>,
      <<"(", "a", "=", "7", ")">>,
      <<"f", " ", "(", "a", "=", "7", ")">>,
      <<"f", "\n", "(", "a", "=", "7", ")">>,
      <<"7", "(", "a", "=", "7", ")">>,
      <<"s", "a", "y", " ", "f", "(", "a", "=", "7", ")">>,
      <<"f", ".", "g", "(", "a", "=", "7", ")">>,
      <<"f", "(", "a", "=", "7">>,
      <<"f", "(", "a", "=", "7", ")", " ", "g", "(", "b", "=", "7", ")">>,
      <<"f", "(", "a", "=", "7", ")", " ", "o", "k", ".">>,
      <<"f", "(", "a", "=", "7", ")", " ", "(", "x", ")">>,
      <<"f", "(", "a", "=", "7", ",", "\n", "b", "=", "7", ")">>,
      <<"f", "(", "a", "=", "(", "7", ")", ")">>,
      <<"f", "(", "a", "=", "'", "x", ",", "y", "'", ",", " ", "b", "=", "\"", "p", ",", "q", "\"", ",", " ", "c", "=", "7", ")">>,
      <<"f", "(", "a", "=", "7", ",", " ", "x", ",", " ", "b", "=", "7", ")">>,
      <<"f", "(", "x", ")">>,
      <<"f", "(", "7", ",", " ", "a", "=", "7", ")">>,
      <<"f", "(", "a", "=", "7", ",", " ", "a", "=", "8", ")">>,
      <<"f", "(", "=", "7", ")">>,
      <<"f", "(", "a", "=", "=", "7", ")">>,
      <<"f", "(", "a", " ", "=", "7", ",", "b", "=", " ", "8", " ", ")">> }

InitCall ==
    /\ pc = "idle"
    /\ function_registry = EmptyDict
    /\ llm1_response = NoneV
    /\ subtasks = <<>>
    /\ i = 0
    /\ func_name = NoneV
    /\ args = EmptyDict
    /\ pending = NoneV
    /\ results = NoneV
    /\ calls = <<>>
    /\ parsed = <<>>
    /\ escaped = NoneV
    /\ p_out = NoneV
    /\ \/ /\ p_pc = "call"
          /\ p_in \in {[t |-> "call", v |-> call] : call \in WrittenCalls \cup {ExampleCall}}
       \/ /\ p_pc = "response"
          /\ p_in \in Responses
       \/ /\ p_pc = "text"
          /\ p_in \in {[t |-> "raw", v |-> text] : text \in RawTexts}

\* the executor writes the call as text
FormatCall ==
    /\ p_pc = "call"
    /\ p_in' = [t |-> "text", v |-> format_call(p_in.v), of |-> p_in.v]
    /\ p_pc' = "text"
    /\ UNCHANGED <<p_out, agent_vars>>

\* lines 439-441
CleanResponse ==
    /\ p_pc = "response"
    /\ p_in' = [t |-> "clean", v |-> clean_response(p_in.v), response |-> p_in.v,
                call |-> p_in.call, wrap |-> p_in.wrap]
    /\ p_pc' = "text"
    /\ UNCHANGED <<p_out, agent_vars>>

\* line 445
ParseCall ==
    /\ p_pc = "text"
    /\ p_out' = parse_function_call(p_in.v)
    /\ p_pc' = "parsed"
    /\ UNCHANGED <<p_in, agent_vars>>

NextCall == FormatCall \/ CleanResponse \/ ParseCall

SpecCall == InitCall /\ [][NextCall]_vars

---------------------------------------------------------------------------
(* The registry scan on its own: a tree of files is given and              *)
(* load_functions_from_directory is applied to it.                         *)

\* src/prototype_1/functions/math_ops.py:3
n_ai_add_two_numbers ==
    <<"a", "i", "_", "a", "d", "d", "_", "t", "w", "o", "_", "n", "u", "m",
      "b", "e", "r", "s">>

\* src/prototype_1/functions/math_ops.py:16
n_ai_sub_two_numbers ==
    <<"a", "i", "_", "s", "u", "b", "_", "t", "w", "o", "_", "n", "u", "m",
      "b", "e", "r", "s">>

\* src/prototype_1/functions/math_ops.py:26
n_ai_mul_two_numbers ==
    <<"a", "i", "_", "m", "u", "l", "_", "t", "w", "o", "_", "n", "u", "m",
      "b", "e", "r", "s">>

\* file name
f_math_ops ==
    <<"m", "a", "t", "h", "_", "o", "p", "s", ".", "p", "y">>

\* file name: a file of the tree that is no module
f_todo ==
    <<"t", "o", "d", "o", ".", "t", "x", "t">>

\* the functions of email_services.py
EmailFunctions ==
    << Function(n_ai_send_email, <<n_subject, n_body>>, {n_subject, n_body}),
       Function(n_convert_to_utc, <<n_subject>>, {n_subject}),
       Function(n_ai_send_calendar_invite,
                <<n_subject, n_body, n_start_time, n_end_time, n_timezone>>,
                {n_subject, n_body, n_start_time, n_end_time, n_timezone}) >>

\* the functions of math_ops.py
MathFunctions ==
    << Function(n_ai_add_two_numbers, << <<"a">>, <<"b">> >>, {<<"a">>, <<"b">>}),
       Function(n_ai_sub_two_numbers, << <<"a">>, <<"b">> >>, {<<"a">>, <<"b">>}),
       Function(n_ai_mul_two_numbers, << <<"a">>, <<"b">> >>, {<<"a">>, <<"b">>}) >>

\* the functions of prototype_3/functions/email_services.py: the names of
\* email_services.py, the invite without its timezone parameter
Prototype3EmailFunctions ==
    << Function(n_ai_send_email, <<n_subject, n_body>>, {n_subject, n_body}),
       Function(n_ai_send_calendar_invite,
                <<n_subject, n_body, n_start_time, n_end_time>>,
                {n_subject, n_body, n_start_time, n_end_time}) >>

\* file name: a copy of math_ops.py kept by an editor
f_math_ops_bak ==
    <<"m", "a", "t", "h", "_", "o", "p", "s", ".", "p", "y", ".", "b", "a", "k">>

\* the files a scanned tree may hold: each tool module as it loads and as it
\* fails to load (an import of it that is missing, a syntax error), the
\* module of the same file name with other definitions, a package file that
\* imports a tool, a copy of a module that does not end in .py, a text file
FilePool ==
    { File(f_email_services, loads, EmailFunctions) : loads \in BOOLEAN }
    \cup { File(f_email_services, loads, Prototype3EmailFunctions) : loads \in BOOLEAN }
    \cup { File(f_math_ops, loads, MathFunctions) : loads \in BOOLEAN }
    \cup { File(f_init, TRUE, <<MathFunctions[1]>>),
           File(f_math_ops_bak, TRUE, MathFunctions),
           File(f_todo, TRUE, <<>>) }

\* most files of a scanned tree
MaxFiles == 3

\* the walks of at most n files
RECURSIVE FileSeqs(_)
FileSeqs(n) ==
    IF n = 0 THEN {<<>>}
    ELSE LET shorter == FileSeqs(n - 1)
         IN  shorter \cup {Append(fs, f) : fs \in shorter, f \in FilePool}

\* the directories given to the scan: a tree, or a path that is no directory
Trees == {[t |-> "dir", v |-> fs] : fs \in FileSeqs(MaxFiles)} \cup {NoneV}

\* the directories given to a later scan of the same process: an empty tree,
\* a tree of one file, or a path that is no directory
Rescans ==
    {[t |-> "dir", v |-> <<>>], NoneV}
    \cup {[t |-> "dir", v |-> <<f>>] : f \in FilePool}

InitLoad ==
    /\ pc = "idle"
    /\ function_registry = EmptyDict
    /\ llm1_response = NoneV
    /\ subtasks = <<>>
    /\ i = 0
    /\ func_name = NoneV
    /\ args = EmptyDict
    /\ pending = NoneV
    /\ results = NoneV
    /\ calls = <<>>
    /\ parsed = <<>>
    /\ escaped = NoneV
    /\ p_out = NoneV
    /\ p_pc = "scan"
    /\ p_in \in Trees

\* line 342
ScanDirectory ==
    /\ p_pc = "scan"
    /\ function_registry' = load_functions_from_directory(function_registry, p_in)
    /\ p_pc' = "scanned"
    /\ UNCHANGED <<pc, llm1_response, subtasks, i, func_name, args, pending,
                   results, calls, parsed, escaped, p_in, p_out>>

\* line 342 in a later run_agent of the process: function_registry is the
\* module global of line 30, as the scans before left it
Rescan ==
    /\ p_pc = "scanned"
    /\ \E directory \in Rescans :
          /\ function_registry' = load_functions_from_directory(function_registry, directory)
          /\ p_out' = [before |-> function_registry, directory |-> directory]
    /\ p_pc' = "rescanned"
    /\ UNCHANGED <<pc, llm1_response, subtasks, i, func_name, args, pending,
                   results, calls, parsed, escaped, p_in>>

NextLoad == ScanDirectory \/ Rescan

SpecLoad == InitLoad /\ [][NextLoad]_vars

---------------------------------------------------------------------------
(* The first prototype: iterative_function_execution,                      *)
(* src/prototype_1/main.py:198-283, over the tools of                       *)
(* src/prototype_1/functions/math_ops.py. A completion is given as what     *)
(* json.loads makes of it.                                                  *)

\* most iterations a run is given (max_iterations, 4 by default)
MaxIter == 3

\* a JSON object as json.loads returns it
PyDict(d) == [t |-> "dict", v |-> d]

\* the int 10**400, which no float holds; the model uses it next to a float
HugeInt == [t |-> "int", v |-> 0, pow10 |-> 400]

IsHuge(x) == x.t = "int" /\ "pow10" \in DOMAIN x

\* the int an int or a bool counts as in arithmetic
to_int(x) == IF x.t = "bool" THEN (IF x.v THEN 1 ELSE 0) ELSE x.v

\* float(x) of an int, a bool or a float
to_float(x) == IF x.t = "float" THEN x ELSE PyFloat(to_int(x), 0)

\* a op b of Python on numbers: two ints give an int; with a float the int
\* is converted first, which raises OverflowError when no float holds it
arith(op, a, b) ==
    IF a.t # "float" /\ b.t # "float"
    THEN Return(PyInt(CASE op = "+" -> to_int(a) + to_int(b)
                        [] op = "-" -> to_int(a) - to_int(b)
                        [] op = "*" -> to_int(a) * to_int(b)))
    ELSE IF IsHuge(a) \/ IsHuge(b)
    THEN Exc("OverflowError", <<"int too large to convert to float">>)
    ELSE LET x == to_float(a)
             y == to_float(b)
             e == IF x.e > y.e THEN x.e ELSE y.e
             xm == x.m * 10 ^ (e - x.e)
             ym == y.m * 10 ^ (e - y.e)
         IN  Return(CASE op = "+" -> Normalise(xm + ym, e)
                      [] op = "-" -> Normalise(xm - ym, e)
                      [] op = "*" -> Normalise(x.m * y.m, x.e + y.e))

\* src/prototype_1/functions/math_ops.py:3-14
ai_add_two_numbers(a, b) == arith("+", a, b)

\* src/prototype_1/functions/math_ops.py:16-24
ai_sub_two_numbers(a, b) == arith("-", a, b)

\* src/prototype_1/functions/math_ops.py:26-34
ai_mul_two_numbers(a, b) == arith("*", a, b)

\* the registry after line 74: the tools of functions/math_ops.py
Prototype1Registry == register_functions(EmptyDict, MathFunctions)

\* func(*args) of line 267 for a tool of the registry
call_tool(name, arguments) ==
    CASE name = n_ai_add_two_numbers -> ai_add_two_numbers(arguments[1], arguments[2])
      [] name = n_ai_sub_two_numbers -> ai_sub_two_numbers(arguments[1], arguments[2])
      [] name = n_ai_mul_two_numbers -> ai_mul_two_numbers(arguments[1], arguments[2])

\* isinstance(arg, Union[int, float]), line 148
is_number(arg) == arg.t \in {"int", "bool", "float"}

\* lines 125-154: every parameter of the tools has the hint Union[int, float].
\* A value that is no list has no len() (the except clause returns False)
\* or has members that are str.
validate_args(func, arguments) ==
    IF arguments.t # "list" THEN FALSE
    ELSE /\ Len(arguments.v) = Len(func.params)
         /\ \A k \in 1..Len(arguments.v) : is_number(arguments.v[k])

\* key of a completion
k_function == <<"f", "u", "n", "c", "t", "i", "o", "n">>

\* key of a completion
k_args == <<"a", "r", "g", "s">>

n_DONE == <<"D", "O", "N", "E">>

\* a completion that json.loads rejects (JSONDecodeError), as the text
\* get_completion returns when the request failed
NotJSON == [t |-> "text"]

\* the value of "args" in a completion: lists of numbers the tools take, a
\* list that is too short, a list with a str, a list whose tool raises, and
\* a value that is no list
ArgValues ==
    { PyList(<<PyInt(2), PyInt(3)>>),
      PyList(<<PyInt(3), PyFloat(15, 1)>>),
      PyList(<<PyBool(TRUE), PyInt(2)>>),
      PyList(<<PyInt(2)>>),
      PyList(<<PyInt(2), PyStr(<<"3">>)>>),
      PyList(<<HugeInt, PyFloat(15, 1)>>),
      PyInt(2) }

\* the completions: no JSON; JSON that is no object; objects without the
\* keys; DONE; a name that cannot be a key; calls of the three tools and of a
\* name the registry does not hold
Completions ==
    { NotJSON,
      PyList(<<>>),
      PyDict(EmptyDict),
      PyDict(DictSet(EmptyDict, k_function, PyStr(n_DONE))),
      PyDict(DictSet(DictSet(EmptyDict, k_function, PyStr(n_DONE)), k_args, PyList(<<>>))),
      PyDict(DictSet(DictSet(EmptyDict, k_function, PyList(<<>>)), k_args, PyList(<<>>))) }
    \cup { PyDict(DictSet(DictSet(EmptyDict, k_function, PyStr(name)), k_args, a)) :
              name \in {n_ai_add_two_numbers, n_ai_sub_two_numbers,
                        n_ai_mul_two_numbers, n_ai_send_email},
              a \in ArgValues }

\* done_return that gives the result of the first call
done_return_first(conversation_state) ==
    IF conversation_state # <<>> THEN conversation_state[1].result
    ELSE PyStr(<<"No valid output.">>)

\* line 261
done_return(conversation_state) ==
    IF conversation_state # <<>>
    THEN conversation_state[Len(conversation_state)].result
    ELSE PyStr(<<"No valid output.">>)

\* the loop goes on with the conversation state cs
Continue(cs) == [kind |-> "continue", v |-> cs]

\* iteration_body that goes on to the next iteration when the name is no
\* key of the registry
iteration_body_skip_unknown(registry, conversation_state, llm_response) ==
    IF llm_response = NotJSON
    THEN Return(PyStr(<<"Error: Could not understand the response from AI.">>))
    ELSE IF \/ llm_response.t # "dict"
            \/ k_function \notin DOMAIN llm_response.v
            \/ k_args \notin DOMAIN llm_response.v
    THEN Return(PyStr(<<"Error: Something went wrong while executing the function.">>))
    ELSE LET name      == llm_response.v[k_function]
             arguments == llm_response.v[k_args]
         IN  IF name = PyStr(n_DONE) THEN Return(done_return(conversation_state))
             ELSE IF name.t \in {"list", "dict"}
             THEN Return(PyStr(<<"Error: Something went wrong while executing the function.">>))
             ELSE IF name.v \notin DOMAIN registry
             THEN Continue(conversation_state)
             ELSE IF ~validate_args(registry[name.v], arguments)
             THEN Return(PyStr(<<"Error: Invalid arguments provided.">>))
             ELSE LET result == call_tool(name.v, arguments.v)
                  IN  IF result.kind = "raise"
                      THEN Return(PyStr(<<"Error: Something went wrong while executing the function.">>))
                      ELSE Continue(Append(conversation_state,
                                           [function |-> name, args |-> arguments,
                                            result |-> result.v]))

\* lines 255-280, one pass through the try block and its handlers: the name
\* of a completion is a str, or a list (which is no key of a dict: TypeError)
iteration_body(registry, conversation_state, llm_response) ==
    IF llm_response = NotJSON
    THEN Return(PyStr(<<"Error: Could not understand the response from AI.">>))
    ELSE IF \/ llm_response.t # "dict"
            \/ k_function \notin DOMAIN llm_response.v
            \/ k_args \notin DOMAIN llm_response.v
    THEN Return(PyStr(<<"Error: Something went wrong while executing the function.">>))
    ELSE LET name      == llm_response.v[k_function]
             arguments == llm_response.v[k_args]
         IN  IF name = PyStr(n_DONE) THEN Return(done_return(conversation_state))
             ELSE IF name.t \in {"list", "dict"}
             THEN Return(PyStr(<<"Error: Something went wrong while executing the function.">>))
             ELSE IF name.v \notin DOMAIN registry
             THEN Return(PyStr(<<"Error: Function ">> \o name.v \o <<" not found.">>))
             ELSE IF ~validate_args(registry[name.v], arguments)
             THEN Return(PyStr(<<"Error: Invalid arguments provided.">>))
             ELSE LET result == call_tool(name.v, arguments.v)
                  IN  IF result.kind = "raise"
                      THEN Return(PyStr(<<"Error: Something went wrong while executing the function.">>))
                      ELSE Continue(Append(conversation_state,
                                           [function |-> name, args |-> arguments,
                                            result |-> result.v]))

\* i: the iterations begun; calls: conversation_state; parsed: the
\* completions received; p_in: the arguments; p_out: the value returned
InitIter ==
    /\ pc = "idle"
    /\ function_registry = Prototype1Registry
    /\ llm1_response = NoneV
    /\ subtasks = <<>>
    /\ i = 0
    /\ func_name = NoneV
    /\ args = EmptyDict
    /\ pending = NoneV
    /\ results = NoneV
    /\ calls = <<>>
    /\ parsed = <<>>
    /\ escaped = NoneV
    /\ p_out = NoneV
    /\ p_pc = "loop"
    /\ p_in \in {[max_iterations |-> n] : n \in 0..MaxIter}

\* one iteration of the loop of line 227: lines 228-280
Iterate ==
    /\ p_pc = "loop"
    /\ i < p_in.max_iterations
    /\ \E llm_response \in Completions :
          LET r == iteration_body(function_registry, calls, llm_response)
          IN  /\ parsed' = Append(parsed, llm_response)
              /\ IF r.kind = "continue"
                 THEN /\ calls' = r.v
                      /\ UNCHANGED <<p_out, p_pc>>
                 ELSE /\ p_out' = r.v
                      /\ p_pc' = "returned"
                      /\ UNCHANGED calls
    /\ i' = i + 1
    /\ UNCHANGED <<pc, function_registry, llm1_response, subtasks, func_name, args,
                   pending, results, escaped, p_in>>

\* lines 282-283
MaxIterationsReached ==
    /\ p_pc = "loop"
    /\ i = p_in.max_iterations
    /\ p_out' = PyStr(<<"Error: Maximum iterations reached.">>)
    /\ p_pc' = "returned"
    /\ UNCHANGED <<pc, function_registry, llm1_response, subtasks, i, func_name, args,
                   pending, results, calls, parsed, escaped, p_in>>

NextIter == Iterate \/ MaxIterationsReached

SpecIter == InitIter /\ [][NextIter]_vars

\* the function runs in one thread and each completion comes back (as a text
\* or as the text of a failure), so a step that can be taken is taken
SpecIterFair == SpecIter /\ WF_vars(NextIter)

---------------------------------------------------------------------------
(* Properties of run_agent and execute_function (specification Spec) *)

\* the trace exists: run_agent is in or past its loop
InLoop == pc \in {"loop", "parsed", "dispatched", "done"}

Range(f) == {f[n] : n \in DOMAIN f}

\* the subtasks recorded so far that failed
Failed == {k \in 1..Len(results.subtasks) : ~results.subtasks[k].success}

Min(S) == CHOOSE k \in S : \A m \in S : k <= m

\* C1: a call whose function name is None or no key of the registry ends in
\* a failure and never in a silent no-op: execute_function raises without
\* calling a tool, no tool is called for that subtask, and its entry has
\* success = False and the error text (not found in registry; for None,
\* which run_agent rejects before execute_function, could not parse).
C1_UnknownFunctionFails ==
    InLoop =>
      /\ \A body \in ToolBodies :
            LET r == execute_function(function_registry, NoneV, args, body)
            IN  r.out.kind = "raise" /\ ~r.called
      /\ \A k \in 1..Len(parsed) :
            LET call == parsed[k]
            IN  ~in_registry(function_registry, call.name) =>
                  /\ \A n \in 1..Len(calls) : calls[n].sub # k
                  /\ (pc = "dispatched" /\ k = i + 1) => pending.kind = "raise"
                  /\ k <= Len(results.subtasks) =>
                        LET e == results.subtasks[k]
                        IN  /\ e.success = FALSE
                            /\ Truthy(e.error)
                            /\ e.error.v =
                                 IF call.name.t = "str"
                                 THEN <<"Function '">> \o call.name.v
                                        \o <<"' not found in registry">>
                                 ELSE <<"Could not parse function call: ">> \o call.text

\* a run over a loaded registry recorded an unregistered name and a None name
C1_Witness ==
    /\ pc = "done"
    /\ function_registry # EmptyDict
    /\ \E k \in 1..Len(parsed) :
          parsed[k].name.t = "str" /\ ~in_registry(function_registry, parsed[k].name)
    /\ \E k \in 1..Len(parsed) : parsed[k].name = NoneV

\* C2: the loop continues on error: the executor stage runs for every
\* subtask in plan order, a subtask is dispatched only when all the earlier
\* ones are recorded, and the returned trace holds one entry for each subtask
\* of the plan, in plan order, with ids 1..n.
C2_ContinueOnError ==
    InLoop =>
      /\ Len(results.subtasks) = i
      /\ Len(parsed) = (IF pc \in {"parsed", "dispatched"} THEN i + 1 ELSE i)
      /\ \A k \in 1..Len(parsed) : parsed[k].sub = k
      /\ \A k \in 1..Len(results.subtasks) :
            /\ results.subtasks[k].id = k
            /\ results.subtasks[k].description = subtasks[k]
      /\ \A n \in 1..Len(calls) :
            /\ calls[n].recorded = calls[n].sub - 1
            /\ \A m \in 1..(n - 1) : calls[m].sub < calls[n].sub
      /\ pc = "done" => Len(results.subtasks) = Len(subtasks)

\* a returned trace whose first subtask failed and whose second succeeded
C2_Witness ==
    /\ pc = "done"
    /\ Len(subtasks) >= 2
    /\ ~results.subtasks[1].success
    /\ results.subtasks[2].success

\* C3: the top-level error is None while no subtask has failed, and from the
\* first failure on it is the text made from the first failing subtask's
\* number and message, whatever fails later.
C3_FirstErrorRetained ==
    InLoop =>
      IF Failed = {} THEN results.error = NoneV
      ELSE LET k == Min(Failed)
           IN  results.error =
                 PyStr(<<"Error in subtask ", ToString(k), ": ">>
                         \o results.subtasks[k].error.v)

\* two subtasks failed with different messages
C3_Witness ==
    /\ pc = "done"
    /\ \E k, m \in Failed :
          k < m /\ results.subtasks[k].error # results.subtasks[m].error

\* C4: whenever the dispatch of a subtask raises, its entry has
\* success = False and an error text that is not empty.
C4_ErrorNonEmpty ==
    [][(pc = "dispatched" /\ pending.kind = "raise") =>
          LET e == results'.subtasks[i + 1]
          IN  e.success = FALSE /\ Truthy(e.error)]_vars

\* C5: the overall success flag is True exactly when every subtask recorded
\* so far succeeded (True for an empty plan), and a cleared flag stays cleared.
C5_SuccessFlag ==
    /\ [](InLoop => (results.success <=> Failed = {}))
    /\ [][(InLoop /\ ~results.success) => ~results'.success]_vars

\* a failure followed by a success, and the flag still cleared at return
C5_Witness ==
    /\ pc = "done"
    /\ Len(results.subtasks) >= 2
    /\ ~results.subtasks[1].success
    /\ results.subtasks[Len(results.subtasks)].success
    /\ ~results.success

\* C10: the tool is called with exactly the entries of the parsed argument
\* map whose keys are parameters of the tool; a key that is no parameter is
\* dropped without an error, so the call binds whenever the map holds the
\* required parameters, and succeeds when the tool's body returns.
C10_OnlyDeclaredKeys ==
    InLoop =>
      \A n \in 1..Len(calls) :
         LET c      == calls[n]
             call   == parsed[c.sub]
             func   == function_registry[c.tool]
             wanted == DOMAIN call.args \cap Range(func.params)
         IN  /\ c.kwargs = [key \in wanted |-> call.args[key]]
             /\ c.entered <=> func.required \subseteq DOMAIN call.args
             /\ (c.entered /\ c.out.kind = "return" /\ c.sub <= Len(results.subtasks))
                   => results.subtasks[c.sub].success

\* a call with a key that is no parameter was made and its subtask succeeded
C10_Witness ==
    /\ InLoop
    /\ \E n \in 1..Len(calls) :
          LET c == calls[n]
          IN  /\ ~(DOMAIN parsed[c.sub].args
                      \subseteq Range(function_registry[c.tool].params))
              /\ c.sub <= Len(results.subtasks)
              /\ results.subtasks[c.sub].success

\* C11: when the body of the tool raises, execute_function hands that very
\* exception to run_agent (same class, same text), so the subtask's entry has
\* success = False and an error equal to the tool's message; and the tool is
\* called once for a dispatch: no subtask has two calls.
C11_ToolErrorPropagates ==
    InLoop =>
      /\ \A n, m \in 1..Len(calls) : calls[n].sub = calls[m].sub => n = m
      /\ \A n \in 1..Len(calls) :
            LET c == calls[n]
            IN  (c.entered /\ c.out.kind = "raise") =>
                  /\ c.out \in ToolBodies
                  /\ (pc = "dispatched" /\ c.sub = i + 1) => pending = c.out
                  /\ c.sub <= Len(results.subtasks) =>
                        /\ results.subtasks[c.sub].success = FALSE
                        /\ results.subtasks[c.sub].error = PyStr(c.out.msg)

\* a tool raised with a message, and its subtask is recorded with that message
C11_Witness ==
    /\ pc = "done"
    /\ \E n \in 1..Len(calls) :
          /\ calls[n].entered
          /\ calls[n].out.kind = "raise"
          /\ calls[n].out.msg # <<>>
          /\ results.subtasks[calls[n].sub].error = PyStr(calls[n].out.msg)

\* C13: whatever the planner and the executor return (a completion, or the
\* placeholder text of a failed call) and whatever the tools do, no exception
\* leaves run_agent, and the run ends with a trace of one entry for each
\* subtask of the plan.
C13_AlwaysReturnsTrace ==
    /\ pc # "raised"
    /\ escaped = NoneV
    /\ pc = "done" => Len(results.subtasks) = Len(subtasks)

---------------------------------------------------------------------------
(* Properties of list mode (specification SpecList) *)

\* C6: parsing the list-literal text of a list of strings gives that list.
C6_RoundTrip ==
    (p_pc = "parsed" /\ p_in.t = "repr") =>
       p_out = Return([n \in 1..Len(p_in.of) |-> PyStr(p_in.of[n])])

\* C7: when the bracketed span is found and is no literal, the result is that
\* of the line-based fallback on the same text.
C7_FallsThrough ==
    (p_pc = "parsed" /\ search_list(p_in.v) # NoneV) =>
       LET r == literal_eval(search_list(p_in.v).v)
       IN  (~r.ok /\ caught(r.exc)) => p_out = Return(line_fallback(p_in.v))

\* C8: process_llm1_response returns a list for every text; it never raises.
C8_NeverRaises == p_pc = "parsed" => p_out.kind = "return"

\* a line that starts with digits, dashes or asterisks and then a period or
\* a space
HasMarker(line) ==
    LET m == MarkerPrefix(line)
    IN  m >= 1 /\ Len(line) > m /\ line[m + 1] \in {".", " "}

\* what is left of such a line without the marker
Unmarked(line) == strip(Slice(line, MarkerPrefix(line) + 2, Len(line)))

\* the lines with a marker and something after it, without their markers
RECURSIVE MarkedItems(_)
MarkedItems(lines) ==
    IF lines = <<>> THEN <<>>
    ELSE IF HasMarker(Head(lines)) /\ Unmarked(Head(lines)) # <<>>
    THEN <<PyStr(Unmarked(Head(lines)))>> \o MarkedItems(Tail(lines))
    ELSE MarkedItems(Tail(lines))

\* C15: without a bracketed span, every line that starts with a marker of
\* digits, dashes or asterisks followed by a period or a space is in the plan
\* without its marker, and a text made of such lines alone gives exactly
\* those items in line order ("1. a" as well as "- b").
C15_MarkedLinesAccepted ==
    (p_pc = "parsed" /\ p_in.t = "text" /\ search_list(p_in.v) = NoneV) =>
       LET lines == split(p_in.v, "\n")
           items == MarkedItems(lines)
       IN  /\ p_out.kind = "return"
           /\ Range(items) \subseteq Range(p_out.v)
           /\ (items # <<>> /\ \A k \in 1..Len(lines) :
                                  lines[k] = <<>> \/ HasMarker(lines[k]))
                 => p_out.v = items

\* the lines from which the substitution removed a prefix, without it
RECURSIVE PrefixedItems(_)
PrefixedItems(lines) ==
    IF lines = <<>> THEN <<>>
    ELSE LET line == Head(lines)
             item == strip(sub_marker(line))
         IN  IF sub_marker(line) # line /\ item # <<>>
             THEN <<PyStr(item)>> \o PrefixedItems(Tail(lines))
             ELSE PrefixedItems(Tail(lines))

\* C16: without a bracketed span, the plan holds the lines from which a
\* numbering or bullet prefix was removed and no other line: a line without
\* such a prefix, also one with white space before or after it, is not in
\* the plan.
C16_OnlyPrefixedLines ==
    (p_pc = "parsed" /\ p_in.t = "text" /\ search_list(p_in.v) = NoneV) =>
       LET items == PrefixedItems(split(p_in.v, "\n"))
       IN  p_out = Return(IF items # <<>> THEN items
                          ELSE <<PyStr(strip(p_in.v))>>)

\* the test of lines 191-192 on one line
Qualifies(line) ==
    LET clean_line == strip(sub_marker(line))
    IN  clean_line # <<>> /\ line # clean_line

---------------------------------------------------------------------------
(* Properties of call mode (specification SpecCall) *)

\* text that opens and closes with the same quote character
IsQuoted(raw) == Len(raw) >= 2 /\ raw[1] \in {"'", "\""} /\ raw[Len(raw)] = raw[1]

\* how many characters of raw are in the set S
Count(raw, S) == Cardinality({n \in 1..Len(raw) : raw[n] \in S})

\* the value the written text raw stands for
ExpectedValue(raw) ==
    IF IsQuoted(raw) THEN PyStr(SubSeq(raw, 2, Len(raw) - 1))
    ELSE IF lower(raw) = <<"t", "r", "u", "e">> THEN PyBool(TRUE)
    ELSE IF lower(raw) = <<"f", "a", "l", "s", "e">> THEN PyBool(FALSE)
    ELSE IF lower(raw) = <<"n", "o", "n", "e">> THEN NoneV
    ELSE IF /\ Count(raw, Digits \cup {"."}) = Len(raw)
            /\ Count(raw, {"."}) <= 1
            /\ Count(raw, Digits) >= 1
    THEN IF Count(raw, {"."}) = 0 THEN PyInt(int(raw)) ELSE float(raw)
    ELSE PyStr(raw)

\* C9: the text f(a=1, b="x,y", c=true, d=none) parses to the name f and
\* {a: 1, b: "x,y", c: True, d: None}; in general a quoted value is the text
\* between its quotes, never coerced, and an unquoted value is a bool for
\* true/false, None for none (any case), an int or a float for digits with at
\* most one decimal point, and else the text as written.
C9_CallParsed ==
    (p_pc = "parsed" /\ p_in.t = "text") =>
       LET call == p_in.of
       IN  /\ p_out.name = PyStr(call.name)
           /\ DOMAIN p_out.args = Range(call.keys)
           /\ \A n \in 1..Len(call.keys) :
                 p_out.args[call.keys[n]] = ExpectedValue(call.values[n])
           /\ call = ExampleCall =>
                 p_out.args = (<<"a">> :> PyInt(1) @@ <<"b">> :> PyStr(<<"x", ",", "y">>)
                               @@ <<"c">> :> PyBool(TRUE) @@ <<"d">> :> NoneV)

\* the example was parsed and its quoted value kept its comma
C9_Witness ==
    /\ p_pc = "parsed"
    /\ p_in.t = "text"
    /\ p_in.of = ExampleCall
    /\ p_out.args[<<"b">>] = PyStr(<<"x", ",", "y">>)

\* C14: a completion that is a call between two triple-backquote markers
\* is cleaned to the call itself, and parsing gives the name and
\* the arguments of the wrapped call (ai_add with {a: 2, b: 3} for the
\* example); with a language tag after the opening marker the markers alone
\* are removed; a completion with a marker at one end only, or with none, is
\* left as it is.
C14_FenceStripped ==
    (p_pc = "parsed" /\ p_in.t = "clean") =>
       LET call == p_in.call
           text == format_call(call)
       IN  /\ p_in.wrap \in {"fence", "fence_nl", "fence_sp"} =>
                /\ p_in.v = text
                /\ p_out.name = PyStr(call.name)
                /\ DOMAIN p_out.args = Range(call.keys)
                /\ \A n \in 1..Len(call.keys) :
                      p_out.args[call.keys[n]] = ExpectedValue(call.values[n])
                /\ call = AddCall =>
                      p_out.args = (<<"a">> :> PyInt(2) @@ <<"b">> :> PyInt(3))
           /\ p_in.wrap = "tagged" =>
                p_in.v = <<"p", "y", "t", "h", "o", "n", "\n">> \o text
           /\ p_in.wrap \in {"open", "close", "bare"} => p_in.v = p_in.response

\* the fence-wrapped example was parsed to ai_add with a = 2 and b = 3
C14_Witness ==
    /\ p_pc = "parsed"
    /\ p_in.t = "clean"
    /\ p_in.wrap = "fence"
    /\ p_in.response = Fence \o format_call(AddCall) \o Fence
    /\ p_out = ParsedCall(PyStr(<<"a", "i", "_", "a", "d", "d">>),
                          <<"a">> :> PyInt(2) @@ <<"b">> :> PyInt(3))

\* text begins with an identifier of k characters and then "("
ImmediateCall(text, k) ==
    /\ k >= 1 /\ k < Len(text)
    /\ \A n \in 1..k : IsWord(text[n])
    /\ text[k + 1] = "("

\* C18 as stated: the name is not None exactly when the text begins with an
\* identifier immediately followed by "(", and it is that identifier; for
\* every other text the result is None with an empty map.
C18_NameIffImmediate ==
    p_pc = "parsed" =>
       IF \E k \in 1..Len(p_in.v) : ImmediateCall(p_in.v, k)
       THEN \E k \in 1..Len(p_in.v) :
               ImmediateCall(p_in.v, k) /\ p_out.name = PyStr(SubSeq(p_in.v, 1, k))
       ELSE p_out = ParsedCall(NoneV, EmptyDict)

\* text begins with k word characters, then white space or none, then "("
WordThenParen(text, k) ==
    /\ k >= 1 /\ k < Len(text)
    /\ \A n \in 1..k : IsWord(text[n])
    /\ \E j \in k..(Len(text) - 1) :
          /\ \A n \in (k + 1)..j : IsSpace(text[n])
          /\ text[j + 1] = "("

\* C18 as amended: the name is not None exactly when the text begins with a
\* run of word characters (letters, digits, underscore) followed, after
\* optional white space, by "(", and it is that run; for every other text
\* the result is None with an empty map.
C18_NameIffWordThenParen ==
    p_pc = "parsed" =>
       IF \E k \in 1..Len(p_in.v) : WordThenParen(p_in.v, k)
       THEN \E k \in 1..Len(p_in.v) :
               WordThenParen(p_in.v, k) /\ p_out.name = PyStr(SubSeq(p_in.v, 1, k))
       ELSE p_out = ParsedCall(NoneV, EmptyDict)

\* the text f (a=7), with a space before the parenthesis, gave the name f
C18_Witness ==
    /\ p_pc = "parsed"
    /\ p_in.v = <<"f", " ", "(", "a", "=", "7", ")">>
    /\ p_out = ParsedCall(PyStr(<<"f">>), <<"a">> :> PyInt(7))

\* "(" minus ")" among the characters p..q of text
Depth(text, p, q) ==
    Cardinality({n \in p..q : text[n] = "("}) - Cardinality({n \in p..q : text[n] = ")"})

\* the index of the ")" that closes the "(" at p, or 0
MatchingClose(text, p) ==
    LET closes == {q \in (p + 1)..Len(text) : Depth(text, p, q) = 0}
    IN  IF closes = {} THEN 0 ELSE Min(closes)

\* C19: the arguments are read from the text between the first "(" and the
\* ")" that matches it; what follows that ")" adds nothing to the map.
C19_SpanToMatchingParen ==
    (p_pc = "parsed" /\ p_out.name # NoneV) =>
       LET p == IndexFrom(p_in.v, "(", 1)
           q == MatchingClose(p_in.v, p)
           args_str == strip(Slice(p_in.v, p + 1, q - 1))
       IN  q # 0 =>
             p_out.args = IF args_str = <<>> THEN EmptyDict
                          ELSE process_args(split_args(args_str), EmptyDict)

\* C20: the span of a written call of n arguments is split into its n
\* key=value texts: a comma inside a quoted value does not split, a quote of
\* the other kind inside a quoted value does not end it, and every comma
\* outside the quotes separates two arguments.
C20_SplitOutsideQuotes ==
    /\ (p_pc = "parsed" /\ p_in.t = "text") =>
          LET call == p_in.of
              n    == Len(call.keys)
              span == search_args(p_in.v).v
          IN  /\ split_args(strip(span))
                   = [k \in 1..n |-> call.keys[k] \o <<"=">> \o call.values[k]]
              /\ Cardinality(DOMAIN p_out.args) = n
    /\ (p_pc = "parsed"
          /\ p_in.v = <<"f", "(", "a", "=", "'", "x", ",", "y", "'", ",", " ", "b",
                        "=", "\"", "p", ",", "q", "\"", ",", " ", "c", "=", "7", ")">>) =>
          p_out.args = (<<"a">> :> PyStr(<<"x", ",", "y">>)
                        @@ <<"b">> :> PyStr(<<"p", ",", "q">>) @@ <<"c">> :> PyInt(7))

\* a call with a comma and the other quote inside each of its two quoted
\* values was parsed to two arguments
C20_Witness ==
    /\ p_pc = "parsed"
    /\ p_in.t = "text"
    /\ p_in.of.values = << <<"\"", "a", "'", "b", ",", "c", "\"">>,
                           <<"'", "a", "\"", "b", ",", "c", "'">> >>
    /\ p_out.args = (<<"a">> :> PyStr(<<"a", "'", "b", ",", "c">>)
                     @@ <<"b">> :> PyStr(<<"a", "\"", "b", ",", "c">>))

\* the written value raw passes the test of line 279 and int() or float()
\* raises on it
CoercionFails(raw) ==
    /\ Count(raw, Digits \cup {Sup2, "."}) = Len(raw)
    /\ Count(raw, {"."}) <= 1
    /\ Count(raw, Digits \cup {Sup2}) >= 1
    /\ Count(raw, {Sup2}) >= 1

\* C21: for every text the result is a pair of a name (a str, or None) and
\* a map from keys to values; the map of a None name is empty; and a written
\* value on which int() or float() raises is in the map as the text that
\* was written.
C21_ParseNeverRaises ==
    p_pc = "parsed" =>
       /\ p_out.name.t \in {"None", "str"}
       /\ \A key \in DOMAIN p_out.args :
             p_out.args[key].t \in {"None", "str", "int", "bool", "float"}
       /\ p_out.name = NoneV => p_out.args = EmptyDict
       /\ p_in.t = "text" =>
             \A n \in 1..Len(p_in.of.keys) :
                CoercionFails(p_in.of.values[n]) =>
                   p_out.args[p_in.of.keys[n]] = PyStr(p_in.of.values[n])

\* a call with the value 7 and a superscript two was parsed, the value kept
C21_Witness ==
    /\ p_pc = "parsed"
    /\ p_in.t = "text"
    /\ Len(p_in.of.keys) = 1
    /\ p_in.of.values[1] = <<"7", Sup2>>
    /\ p_out.args[<<"a">>] = PyStr(<<"7", Sup2>>)

\* the argument segments of a text: the span of line 225, stripped, split at
\* the commas outside quotes
Segments(text) ==
    IF search_args(text) = NoneV THEN <<>>
    ELSE split_args(strip(search_args(text).v))

\* the text before the first "=" of a segment, and the text after it
KeyOf(seg) == strip(SubSeq(seg, 1, IndexFrom(seg, "=", 1) - 1))
ValueOf(seg) == strip(SubSeq(seg, IndexFrom(seg, "=", 1) + 1, Len(seg)))

\* C22: the keys of the argument map are exactly the texts before the
\* first "=" of the segments that have one, each with the value of the last
\* segment of that key: a segment without "=" adds no key and changes no
\* entry.
C22_SegmentsWithoutEqDropped ==
    (p_pc = "parsed" /\ p_out.name # NoneV) =>
        LET segs  == Segments(p_in.v)
            named == {n \in 1..Len(segs) : IndexFrom(segs[n], "=", 1) # 0}
        IN  /\ DOMAIN p_out.args = {KeyOf(segs[n]) : n \in named}
            /\ \A n \in named :
                  (\A m \in named : m > n => KeyOf(segs[m]) # KeyOf(segs[n]))
                  => p_out.args[KeyOf(segs[n])] = coerce_value(ValueOf(segs[n]))

\* f(a=7, x, b=7) was parsed: the segment x is gone, a and b are 7
C22_Witness ==
    /\ p_pc = "parsed"
    /\ p_in.v = <<"f", "(", "a", "=", "7", ",", " ", "x", ",", " ", "b", "=", "7", ")">>
    /\ p_out.args = (<<"a">> :> PyInt(7) @@ <<"b">> :> PyInt(7))

---------------------------------------------------------------------------
(* Properties of the registry scan (specification SpecLoad) *)

\* file k of the walk is a module the scan tries to load
IsModule(files, k) ==
    /\ endswith(files[k].filename, <<".", "p", "y">>)
    /\ ~startswith(files[k].filename, <<"_", "_">>)

\* the ai_ names file k defines
AiNames(files, k) ==
    {files[k].functions[j].name : j \in
        {j \in 1..Len(files[k].functions) :
            startswith(files[k].functions[j].name, <<"a", "i", "_">>)}}

\* C12: the scan of a tree ends, and every ai_ function of every module that
\* loads is registered, wherever in the walk the modules that fail to load
\* are: with one failing module among N, those of the other N-1 are there.
C12_ScanResilient ==
    (p_pc = "scanned" /\ p_in # NoneV) =>
       \A k \in 1..Len(p_in.v) :
          (IsModule(p_in.v, k) /\ p_in.v[k].loads) =>
             AiNames(p_in.v, k) \subseteq DOMAIN function_registry

\* a tree of three modules was scanned, the one in the middle failed to load
\* and the functions of the two others are registered
C12_Witness ==
    /\ p_pc = "scanned"
    /\ p_in # NoneV
    /\ Len(p_in.v) = 3
    /\ \A k \in 1..3 : IsModule(p_in.v, k)
    /\ p_in.v[1].loads /\ ~p_in.v[2].loads /\ p_in.v[3].loads
    /\ p_in.v[1].filename # p_in.v[3].filename
    /\ AiNames(p_in.v, 1) \cup AiNames(p_in.v, 3) = DOMAIN function_registry

\* the files of a directory in the order of its walk
FilesOf(directory) == IF directory = NoneV THEN <<>> ELSE directory.v

\* the files walked so far, in the order of the scans
Walked ==
    IF p_pc = "scan" THEN <<>>
    ELSE IF p_pc = "scanned" THEN FilesOf(p_in)
    ELSE FilesOf(p_in) \o FilesOf(p_out.directory)

\* the files of a walk that were loaded as modules
Loaded(files) == {k \in 1..Len(files) : IsModule(files, k) /\ files[k].loads}

\* the signature file f gives to the name it defines
SignatureIn(f, name) ==
    LET j == CHOOSE j \in 1..Len(f.functions) : f.functions[j].name = name
    IN  [params |-> f.functions[j].params, required |-> f.functions[j].required]

\* C23: no scan removes a key (every name registered before the second
\* scan is registered after it), and a name that several loaded modules
\* define is mapped to the definition of the module loaded last.
C23_AdditiveLastWins ==
    /\ p_pc = "rescanned" => DOMAIN p_out.before \subseteq DOMAIN function_registry
    /\ \A k \in Loaded(Walked) : \A name \in AiNames(Walked, k) :
          (\A m \in Loaded(Walked) : m > k => name \notin AiNames(Walked, m))
          => /\ name \in DOMAIN function_registry
             /\ function_registry[name] = SignatureIn(Walked[k], name)

\* the invite of email_services.py was registered with five parameters, the
\* later scan loaded the module that defines it with four, and the registry
\* has the four
C23_Witness ==
    /\ p_pc = "rescanned"
    /\ n_ai_send_calendar_invite \in DOMAIN p_out.before
    /\ Len(p_out.before[n_ai_send_calendar_invite].params) = 5
    /\ n_ai_add_two_numbers \in DOMAIN p_out.before
    /\ p_out.directory # NoneV
    /\ Len(function_registry[n_ai_send_calendar_invite].params) = 4
    /\ n_ai_add_two_numbers \in DOMAIN function_registry

\* the ai_ names the modules of a directory register
NamesUnder(directory) ==
    UNION {AiNames(FilesOf(directory), k) : k \in Loaded(FilesOf(directory))}

\* C24 as stated: after load(dirA) and load(dirB) the registry holds exactly
\* the tools found under dirB.
C24_RescanRebuilds ==
    (p_pc = "rescanned" /\ p_out.directory # NoneV) =>
        DOMAIN function_registry = NamesUnder(p_out.directory)

\* C24: a re-scan does not clear the registry: after load(dirA) and
\* load(dirB) the registry holds the tools found under dirA and those found
\* under dirB, a name found under both with the definition of dirB, and a
\* tool found only under dirA as it was registered.
C24_RescanAdds ==
    p_pc = "rescanned" =>
        /\ DOMAIN function_registry = NamesUnder(p_in) \cup NamesUnder(p_out.directory)
        /\ \A name \in NamesUnder(p_in) \ NamesUnder(p_out.directory) :
              function_registry[name] = p_out.before[name]
        /\ \A name \in NamesUnder(p_out.directory) :
              \E k \in Loaded(FilesOf(p_out.directory)) :
                 /\ name \in AiNames(FilesOf(p_out.directory), k)
                 /\ function_registry[name] = SignatureIn(FilesOf(p_out.directory)[k], name)

\* math_ops.py was scanned, then a tree that holds email_services.py only:
\* the tools of both are registered
C24_Witness ==
    /\ p_pc = "rescanned"
    /\ NamesUnder(p_in) = {n_ai_add_two_numbers, n_ai_sub_two_numbers, n_ai_mul_two_numbers}
    /\ NamesUnder(p_out.directory) = {n_ai_send_email, n_ai_send_calendar_invite}
    /\ n_ai_add_two_numbers \in DOMAIN function_registry
    /\ n_ai_send_email \in DOMAIN function_registry

\* C25: after any scans every key of the registry starts with "ai_" and is
\* the name of a function of a file that was loaded as a module, a file whose
\* name ends in .py and does not start with "__"; what files of other names
\* define, and functions without the prefix, are not registered.
C25_KeysAreLoadedTools ==
    \A key \in DOMAIN function_registry :
       /\ startswith(key, <<"a", "i", "_">>)
       /\ \E k \in Loaded(Walked) :
             \E j \in 1..Len(Walked[k].functions) : Walked[k].functions[j].name = key

\* a tree with the package file that imports ai_add_two_numbers, the copy
\* math_ops.py.bak and email_services.py was scanned: the registry holds the
\* two tools of email_services.py, neither its helper nor a tool of the
\* files that are not loaded
C25_Witness ==
    /\ p_pc = "scanned"
    /\ p_in # NoneV
    /\ {p_in.v[k].filename : k \in 1..Len(p_in.v)} = {f_init, f_math_ops_bak, f_email_services}
    /\ DOMAIN function_registry = {n_ai_send_email, n_ai_send_calendar_invite}

---------------------------------------------------------------------------
(* Properties of the tools and of one dispatch for each subtask            *)
(* (specification Spec)                                                     *)

\* C26: a call of ai_send_email whose SMTP session raised ends in an
\* exception, and its subtask is recorded as failed.
C26_SendFailureRaises ==
    InLoop =>
       \A n \in 1..Len(calls) :
          LET c == calls[n]
          IN  (/\ c.tool = n_ai_send_email
               /\ c.entered
               /\ c.env.t = "email"
               /\ c.env.password
               /\ c.env.smtp = "error") =>
                 /\ c.out.kind = "raise"
                 /\ c.sub <= Len(results.subtasks) =>
                       ~results.subtasks[c.sub].success

\* the dispatch of subtask k is over
Dispatched(k) == k <= Len(results.subtasks) \/ (pc = "dispatched" /\ k = i + 1)

\* the calls made for subtask k
CallsOf(k) == {m \in 1..Len(calls) : calls[m].sub = k}

\* C27: a subtask has no call before its dispatch, and after it exactly one
\* call, of the parsed name, when that name is a key of the registry and none
\* when it is None or no key, whatever follows the first call in the
\* executor's text.
C27_OneInvocationPerSubtask ==
    InLoop =>
       \A n \in 1..Len(parsed) :
          LET k    == parsed[n].sub
              name == parsed[n].name
          IN  /\ \A m \in CallsOf(k) : name.t = "str" /\ calls[m].tool = name.v
              /\ Cardinality(CallsOf(k)) =
                    IF /\ Dispatched(k)
                       /\ name.t = "str"
                       /\ name.v \in DOMAIN function_registry
                    THEN 1 ELSE 0

\* the completion of two calls ran ai_send_email once, with the subject of
\* the first call, and the run ended with one call in all
C27_Witness ==
    /\ pc = "done"
    /\ Len(parsed) = 1
    /\ parsed[1].text = CallTwice
    /\ Len(calls) = 1
    /\ calls[1].tool = n_ai_send_email
    /\ calls[1].entered
    /\ calls[1].kwargs[n_subject] = PyStr(<<"a">>)

\* C28: a text that begins with an identifier and "(" and holds no ")" is
\* parsed to that identifier with the empty map, and when the identifier is a
\* key of the registry the tool is called with no arguments.
C28_UnclosedCallNoArgs ==
    InLoop =>
       \A n \in 1..Len(parsed) :
          LET text == parsed[n].text
              k    == parsed[n].sub
          IN  (/\ \E w \in 1..Len(text) : ImmediateCall(text, w)
               /\ Count(text, {")"}) = 0) =>
                 /\ \E w \in 1..Len(text) :
                       /\ ImmediateCall(text, w)
                       /\ parsed[n].name = PyStr(SubSeq(text, 1, w))
                 /\ parsed[n].args = EmptyDict
                 /\ \A m \in CallsOf(k) : calls[m].kwargs = EmptyDict
                 /\ (Dispatched(k) /\ parsed[n].name.v \in DOMAIN function_registry)
                       => CallsOf(k) # {}

\* the call cut off before its ")" was dispatched: ai_send_email was called
\* with no arguments, which its signature rejects
C28_Witness ==
    /\ InLoop
    /\ \E n \in 1..Len(parsed) :
          /\ parsed[n].text = CallUnclosed
          /\ parsed[n].name = PyStr(n_ai_send_email)
          /\ \E m \in CallsOf(parsed[n].sub) :
                /\ calls[m].kwargs = EmptyDict
                /\ ~calls[m].entered
                /\ calls[m].out.exc = "TypeError"

---------------------------------------------------------------------------
(* Properties of iterative_function_execution (specifications SpecIter and *)
(* SpecIterFair)                                                            *)

\* the completion has both keys and a name that is a str
WellFormed(doc) ==
    /\ doc.t = "dict"
    /\ k_function \in DOMAIN doc.v
    /\ k_args \in DOMAIN doc.v
    /\ doc.v[k_function].t = "str"

\* the completion answers DONE
AnswersDone(doc) == WellFormed(doc) /\ doc.v[k_function].v = n_DONE

\* the completion names a tool the registry does not hold
UnknownFunction(doc) ==
    /\ WellFormed(doc)
    /\ ~AnswersDone(doc)
    /\ doc.v[k_function].v \notin
          {n_ai_add_two_numbers, n_ai_sub_two_numbers, n_ai_mul_two_numbers}

\* the completion names a tool and its arguments are two numbers
ValidCall(doc) ==
    /\ WellFormed(doc)
    /\ doc.v[k_function].v \in
          {n_ai_add_two_numbers, n_ai_sub_two_numbers, n_ai_mul_two_numbers}
    /\ doc.v[k_args].t = "list"
    /\ Len(doc.v[k_args].v) = 2
    /\ \A k \in 1..2 : doc.v[k_args].v[k].t \in {"int", "bool", "float"}

\* the tool raises on the arguments of a valid call: an int that no float
\* holds meets a float
ToolRaises(doc) ==
    /\ ValidCall(doc)
    /\ \E k \in 1..2 : IsHuge(doc.v[k_args].v[k])
    /\ \E k \in 1..2 : doc.v[k_args].v[k].t = "float"

\* the completion leads to a tool call that returns
Succeeds(doc) == ValidCall(doc) /\ ~ToolRaises(doc)

C29_FailFast ==
    /\ Len(parsed) = i
    /\ i <= p_in.max_iterations
    /\ \A n \in 1..(Len(parsed) - 1) : Succeeds(parsed[n])
    /\ p_pc = "loop" => \A n \in 1..Len(parsed) : Succeeds(parsed[n])
    /\ p_pc = "returned" =>
          IF parsed # <<>> /\ ~Succeeds(parsed[Len(parsed)])
          THEN LET doc == parsed[Len(parsed)]
               IN  /\ UnknownFunction(doc) =>
                        p_out = PyStr(<<"Error: Function ">> \o doc.v[k_function].v
                                        \o <<" not found.">>)
                   /\ (WellFormed(doc) /\ ~AnswersDone(doc) /\ ~UnknownFunction(doc)
                          /\ ~ValidCall(doc)) =>
                        p_out = PyStr(<<"Error: Invalid arguments provided.">>)
                   /\ doc = NotJSON =>
                        p_out = PyStr(<<"Error: Could not understand the response from AI.">>)
                   /\ ToolRaises(doc) =>
                        p_out = PyStr(<<"Error: Something went wrong while executing the function.">>)
          ELSE /\ i = p_in.max_iterations
               /\ p_out = PyStr(<<"Error: Maximum iterations reached.">>)

\* C29: the run ends, after at most max_iterations completions; every
\* completion before the last led to a tool call that returned; a completion
\* that names an unknown function, gives invalid arguments, is no JSON or
\* whose tool raises is the last one, answered with its error text; and when
\* max_iterations completions all led to calls that returned, the value is
\* "Error: Maximum iterations reached.".
C29_TerminatesFailFast == []C29_FailFast /\ <>(p_pc = "returned")

\* three calls returned and the run ended with the error of the iterations
C29_Witness ==
    /\ p_pc = "returned"
    /\ p_in.max_iterations = 3
    /\ Len(calls) = 3
    /\ p_out = PyStr(<<"Error: Maximum iterations reached.">>)

\* the entry of conversation_state a completion that succeeds adds
EntryOf(doc) ==
    [function |-> doc.v[k_function], args |-> doc.v[k_args],
     result |-> call_tool(doc.v[k_function].v, doc.v[k_args].v).v]

C30_OneEntryPerCall ==
    /\ Len(calls) = Cardinality({n \in 1..Len(parsed) : Succeeds(parsed[n])})
    /\ \A n \in 1..Len(calls) : calls[n] = EntryOf(parsed[n])
    /\ (p_pc = "returned" /\ parsed # <<>> /\ AnswersDone(parsed[Len(parsed)])) =>
          p_out = IF calls = <<>> THEN PyStr(<<"No valid output.">>)
                  ELSE calls[Len(calls)].result

C30_Grows ==
    \/ calls' = calls
    \/ /\ Len(calls') = Len(calls) + 1
       /\ SubSeq(calls', 1, Len(calls)) = calls
       /\ Succeeds(parsed'[Len(parsed')])

\* C30: conversation_state has one entry for each tool call that returned,
\* in the order of the calls; a step leaves it as it is or appends one entry,
\* for a call that returned; and on DONE the value returned is the result of
\* its last entry, or "No valid output." when it is empty.
C30_AppendOnly == []C30_OneEntryPerCall /\ [][C30_Grows]_vars

\* two calls with different results were made, DONE came, and the result of
\* the second call was returned
C30_Witness ==
    /\ p_pc = "returned"
    /\ Len(calls) = 2
    /\ calls[1].result # calls[2].result
    /\ AnswersDone(parsed[Len(parsed)])
    /\ p_out = calls[2].result

=============================================================================
